---- MODULE Spec2Model ----
(***************************************************************************)
(* Socket.IO C++ client: the connection engine (client_impl), one          *)
(* namespace socket (socket::impl) and the acknowledgment table, as a      *)
(* state machine.  One dedicated network thread runs the transport's       *)
(* event loop (handlers, timers, posted closures); user threads call the   *)
(* client and socket API concurrently.                                     *)
(***************************************************************************)
EXTENDS Integers, Sequences, FiniteSets, TLC

(* ----------------------------- bounds -------------------------------- *)
MaxDelay == 5        \* reconnect delays are drawn from 0..MaxDelay (unit: one tick)
MaxK == 4            \* prior attempts given to next_delay as input
MaxTransports == 2   \* transport connection attempts in one behaviour
MaxRetryTransports == 4   \* the same in the scenario that exhausts the reconnect attempts
MaxConnects == 2     \* user connect() calls in one behaviour
MaxEmits == 2        \* emit calls of the emitting user thread
MaxInbound == 2      \* inbound frames handled while connected
MaxCloses == 1       \* user close()/sync_close() calls in one behaviour

(* ------------------------ program constants -------------------------- *)
InfiniteAttempts == 2147483647  \* m_reconn_attempts(static_cast<unsigned>(-1)): larger than any count reached
DefaultDelay == 50              \* m_reconn_delay(5000), in ticks of 100 ms
DefaultDelayMax == 250          \* m_reconn_delay_max(25000), in ticks of 100 ms
DefaultPingInterval == 25000
DefaultPingTimeout == 60000
FirstEventId == 1               \* s_global_event_id{1}

con_opening == "con_opening"
con_opened == "con_opened"
con_closing == "con_closing"
con_closed == "con_closed"

VARIABLES
    \* client_impl
    m_con_state, m_con, m_abort_retries, m_reconn_made,
    m_reconn_attempts, m_reconn_delay, m_reconn_delay_max,
    m_reconn_timer, m_ping_timeout_timer,
    m_has_pending_reason, m_pending_disconnect_reason,
    m_sid, m_ping_interval, m_ping_timeout, m_network_thread,
    \* the transport and the event loop
    transport, local_close_code, io_queue, timer_q, loop_running, net_pc,
    \* socket::impl of the one namespace, and the engine's map entry
    in_map, sock_client, m_connected, m_packet_queue, m_connection_timer,
    \* the socket of a second namespace, and the listeners bound per namespace
    chat, m_event_binding,
    \* the inbound event being dispatched on the network thread
    ev,
    m_acks, m_ack_timers, ack_timer, s_global_event_id,
    \* each thread's place in a handler and the owner of each mutex
    lk_pc, lk_owner,
    \* the sockets by namespace name, the next socket number and the socket
    \* last returned for each name passed to socket()
    sock_map, sock_next, sock_ret,
    \* user threads
    usr_pc, em_pc, em_id, em_pkt, em_local,
    \* the emit_awaiter of the emit_async in progress
    awaiter,
    \* what the outside observes
    wire, reconnect_log, close_log, fail_log, ack_calls, timeout_calls,
    delay_out, user_closed, sock_created, close_called, event_calls, ack_recv,
    \* the ack ids handed out, in the order of the fetch_add calls
    id_log,
    \* the last packet encoded with the frames handed to the encode callback
    enc_out,
    \* packet_manager: the partial packet, the packets handed to the decode
    \* callback, the payloads fed so far
    m_partial_packet, decoded, fed,
    \* calls of the socket-open and socket-close listeners for namespace /
    socket_listener_calls,
    \* history: the connection (by TransportsUsed) on which the ping-timeout wait last expired
    ping_expired_on,
    \* history: packets the socket of / handed to client_impl::send, inbound packets routed to it
    traffic,
    \* socket::impl::m_packets_sent and m_packets_received of namespace /
    metrics,
    \* history: socket::impl::close has sent DISCONNECT for the connected namespace
    ns_close_sent,
    \* the last value handed to the state listener; flip toggles at every call
    state_notified,
    \* history: reconnect timers scheduled since the last connect() or handshake
    run_timers,
    \* an open transport has been closed since construction
    dropped,
    transports_left, n_connects, n_emits, n_inbound, n_closes

engVars == <<m_con_state, m_con, m_abort_retries, m_reconn_made,
             m_reconn_timer, m_ping_timeout_timer,
             m_has_pending_reason, m_pending_disconnect_reason,
             m_sid, m_ping_interval, m_ping_timeout, m_network_thread>>
cfgVars == <<m_reconn_attempts, m_reconn_delay, m_reconn_delay_max>>
runVars == <<transport, local_close_code, io_queue, timer_q, loop_running, net_pc>>
sockVars == <<in_map, sock_client, m_connected, m_packet_queue, m_connection_timer,
              chat, m_event_binding, ev>>
ackVars == <<m_acks, m_ack_timers, ack_timer, s_global_event_id>>
lockVars == <<lk_pc, lk_owner>>
mapVars == <<sock_map, sock_next, sock_ret>>
usrVars == <<usr_pc, em_pc, em_id, em_pkt, em_local, awaiter>>
obsVars == <<wire, reconnect_log, close_log, fail_log, ack_calls, timeout_calls,
             delay_out, user_closed, sock_created, close_called, event_calls,
             ack_recv, id_log, enc_out, m_partial_packet, decoded, fed, dropped, run_timers, state_notified, ns_close_sent, metrics, traffic, ping_expired_on, socket_listener_calls>>
cntVars == <<transports_left, n_connects, n_emits, n_inbound, n_closes>>
vars == <<engVars, cfgVars, runVars, sockVars, ackVars, lockVars, mapVars, usrVars, obsVars,
          cntVars>>

Min(a, b) == IF a <= b THEN a ELSE b
Pow2(k) == 2 ^ k

(* ------------------------- client_impl::next_delay ------------------- *)
\* the while loop of next_delay: `attempts` iterations left, current `delay`
RECURSIVE next_delay_loop(_, _, _)
next_delay_loop(delay, attempts, dmax) ==
    IF attempts > 0 /\ delay < dmax
    THEN IF delay > dmax \div 2
         THEN dmax
         ELSE next_delay_loop(delay * 2, attempts - 1, dmax)   \* delay <= dmax / 2: no wrap
    ELSE delay

\* a plausible slip: the saturation test is dropped, the delay is doubled blindly
next_delay_unsaturated(delay, made, dmax) ==
    IF delay < dmax THEN delay * Pow2(made) ELSE delay

next_delay(delay, made, dmax) == next_delay_loop(delay, made, dmax)

\* the range of int, the type of pack_id
IntMax == 2147483647
IntMin == -2147483647 - 1

\* s_global_event_id.fetch_add(1): the 32 bits of the counter after the
\* call, read as an int
fetch_add(s) == IF s = IntMax THEN IntMin ELSE s + 1

EmitIds == FirstEventId .. (FirstEventId + MaxEmits - 1)

\* the namespaces of the two sockets and the event names of inbound packets
Namespaces == {"/", "/chat"}
EventNames == {"a", "b"}

\* the functions a user binds as listeners; NoListener is the empty function
MaxListeners == 2
Listeners == 1..MaxListeners
NoListener == 0

\* no emit_async was called: id 0 is never drawn as an ack id
NoAwaiter == [id |-> 0, continuation |-> FALSE, result |-> "none", resumed |-> FALSE]

\* no inbound event is being dispatched
NoEvent == [so |-> "none", name |-> "", id |-> -1, func |-> NoListener]

\* the second namespace's socket before socket("/chat") is called
\* no CONNECT response is delivered to it: its m_connected stays false
NoSocket == [in_map |-> FALSE, m_connected |-> FALSE,
             m_connection_timer |-> "null", m_packet_queue |-> <<>>]

(* ------------------------------- Init -------------------------------- *)
\* the state after client_impl's constructor, the attempt counter left open
InitWith(first_id) ==
    /\ m_con_state = con_closed
    /\ m_con = FALSE
    /\ m_abort_retries = FALSE
    /\ m_reconn_attempts = InfiniteAttempts
    /\ m_reconn_delay = DefaultDelay
    /\ m_reconn_delay_max = DefaultDelayMax
    /\ m_reconn_timer = "null"
    /\ m_ping_timeout_timer = "null"
    /\ m_has_pending_reason = FALSE
    /\ m_pending_disconnect_reason = "client_disconnect"
    /\ m_sid = ""
    /\ m_ping_interval = 0
    /\ m_ping_timeout = 0
    /\ m_network_thread = FALSE
    /\ transport = "none"
    /\ local_close_code = "normal"
    /\ io_queue = <<>>
    /\ timer_q = [reconn |-> 0, ping |-> 0, conn |-> 0, grace |-> 0, aborted |-> 0]
    /\ loop_running = FALSE
    /\ net_pc = "idle"
    /\ in_map = FALSE
    /\ sock_client = FALSE
    /\ m_connected = FALSE
    /\ m_packet_queue = <<>>
    /\ m_connection_timer = "null"
    /\ m_acks = {}
    /\ m_ack_timers = {}
    /\ ack_timer = [i \in EmitIds |-> "none"]
    /\ s_global_event_id = first_id
    /\ usr_pc = "idle"
    /\ em_pc = "idle"
    /\ em_id = -1
    /\ em_pkt = 0
    /\ em_local = <<>>
    /\ awaiter = NoAwaiter
    /\ wire = <<>>
    /\ reconnect_log = <<>>
    /\ close_log = <<>>
    /\ fail_log = <<>>
    /\ ack_calls = [i \in EmitIds |-> 0]
    /\ timeout_calls = [i \in EmitIds |-> 0]
    /\ delay_out = -1
    /\ user_closed = FALSE
    /\ sock_created = FALSE
    /\ close_called = FALSE
    /\ chat = NoSocket
    /\ m_event_binding = [nsp \in Namespaces |-> [name \in EventNames |-> NoListener]]
    /\ ev = NoEvent
    /\ sock_map = {}
    /\ sock_next = 1
    /\ sock_ret = [n \in {<<>>, <<"/">>, <<"c">>, <<"/", "c">>, <<"/", "d">>} |-> 0]
    /\ lk_pc = [t \in {"net", "usr"} |-> <<>>]
    /\ lk_owner = [m \in {"m_socket_mutex", "m_listener_mutex", "m_event_mutex",
                           "m_packet_mutex"} |-> "free"]
    /\ event_calls = <<>>
    /\ ack_recv = [i \in EmitIds |-> 0]
    /\ id_log = <<>>
    /\ socket_listener_calls = [open |-> 0, close |-> 0]
    /\ ping_expired_on = 0
    /\ traffic = [handed |-> 0, routed |-> 0]
    /\ metrics = [packets_sent |-> 0, packets_received |-> 0]
    /\ ns_close_sent = FALSE
    /\ state_notified = [value |-> "none", flip |-> FALSE]
    /\ run_timers = 0
    /\ dropped = FALSE
    /\ enc_out = <<>>
    /\ m_partial_packet = <<>>
    /\ decoded = <<>>
    /\ fed = <<>>
    /\ n_connects = 0
    /\ n_emits = 0
    /\ n_inbound = 0
    /\ n_closes = 0

\* the state after construction in a process that has made no emit yet
InitRest == InitWith(FirstEventId)

Init == InitRest /\ m_reconn_made = 0 /\ transports_left = MaxTransports

\* the scenario that exhausts the reconnect attempts needs more connections
InitRetry == InitRest /\ m_reconn_made = 0 /\ transports_left = MaxRetryTransports

\* the inputs of the pure backoff function: k prior attempts in this run
InitDelay == InitRest /\ m_reconn_made \in 0..MaxK /\ transports_left = 0

\* the number of transport connections started so far
TransportsUsed == MaxTransports - transports_left

\* client_impl::get_connection_state: the public value of a con_state
get_connection_state(st) ==
    CASE st = con_opening -> "connecting"
      [] st = con_opened -> "connected"
      [] st = con_closing -> "closing"
      [] OTHER -> "disconnected"

\* client_impl::notify_state_change with a state listener set
notify_state_change(state) == [value |-> state, flip |-> ~state_notified.flip]

(* ---------------- reconnection configuration (setters) --------------- *)
\* client::set_reconnect_config: the configuration fields are stored
set_reconnect_config(attempts, delay, delay_max) ==
    /\ n_connects = 0 /\ usr_pc = "idle"
    /\ <<attempts, delay, delay_max>> # <<m_reconn_attempts, m_reconn_delay, m_reconn_delay_max>>
    /\ m_reconn_attempts' = attempts
    /\ m_reconn_delay' = delay
    /\ m_reconn_delay_max' = delay_max
    /\ delay_out' = -1
    /\ UNCHANGED <<engVars, runVars, sockVars, ackVars, lockVars, mapVars, usrVars, cntVars,
                   wire, reconnect_log, close_log, fail_log, ack_calls,
                   timeout_calls, user_closed, sock_created, close_called, event_calls,
                   ack_recv, id_log, enc_out, m_partial_packet, decoded, fed, dropped, run_timers, state_notified, ns_close_sent, metrics, traffic, ping_expired_on, socket_listener_calls>>

(* ------------- the pure backoff function, applied to inputs ---------- *)
CallNextDelay ==
    /\ delay_out = -1
    /\ delay_out' = next_delay(m_reconn_delay, m_reconn_made, m_reconn_delay_max)
    /\ UNCHANGED <<engVars, cfgVars, runVars, sockVars, ackVars, lockVars, mapVars, usrVars,
                   cntVars,
                   wire, reconnect_log, close_log, fail_log, ack_calls,
                   timeout_calls, user_closed, sock_created, close_called, event_calls,
                   ack_recv, id_log, enc_out, m_partial_packet, decoded, fed, dropped, run_timers, state_notified, ns_close_sent, metrics, traffic, ping_expired_on, socket_listener_calls>>

(* ======================================================================= *)
(* packets, the send path and the socket's helper functions                *)
(* ======================================================================= *)
\* a packet of the root namespace
Pkt(t, n) == [type |-> t, n |-> n, nsp |-> "/"]
\* a packet of namespace nsp
NspPkt(nsp, t, n) == [type |-> t, n |-> n, nsp |-> nsp]
ConnectPkt == Pkt("connect", 0)
DisconnectPkt == Pkt("disconnect", 0)
PongPkt == Pkt("pong", 0)
EventPkt(n) == Pkt("event", n)
NoPkt == Pkt("none", 0)
ChatConnectPkt == NspPkt("/chat", "connect", 0)
\* the ACK reply to an inbound EVENT: the ack message list as an array
AckPkt(nsp, id, ack_message) ==
    [type |-> "ack", n |-> id, nsp |-> nsp, msg |-> ack_message]

Closure(op, p) == [op |-> op, pkt |-> p]

\* client_impl::send_impl: the payload is written only in con_opened; a
\* write on a transport that is not open fails with an error code
send_impl(w, st, tr, p) ==
    IF st = con_opened /\ tr = "open" THEN Append(w, p) ELSE w

\* client_impl::send on the network thread for a list of packets:
\* encode, on_encode, dispatch runs send_impl inline
RECURSIVE send_all(_, _, _, _)
send_all(w, st, tr, ps) ==
    IF ps = <<>> THEN w
    ELSE send_all(send_impl(w, st, tr, Head(ps)), st, tr, Tail(ps))

\* client_impl::send on a user thread: on_encode's dispatch posts send_impl
post_all(q, ps) == q \o [i \in 1..Len(ps) |-> Closure("send_impl", ps[i])]

\* cancelling or replacing m_connection_timer while the close-grace wait is
\* pending completes that wait; its handler ignores the error code
cancel_connection_timer(tq) ==
    IF m_connection_timer = "grace"
    THEN [tq EXCEPT !.grace = @ + 1, !.aborted = @ + 1] ELSE tq

\* socket::impl::close as called by sockets_invoke_void; its send_packet
\* takes the connected branch.  onNet: the caller is the network thread.
socket_close(onNet, st, tr, w, q, tq) ==
    IF in_map /\ sock_client /\ m_connected
    THEN LET ps == Append(m_packet_queue, DisconnectPkt)
         IN  [queue |-> <<>>,
              timer |-> "grace",
              tq |-> cancel_connection_timer(tq),
              wire |-> IF onNet THEN send_all(w, st, tr, ps) ELSE w,
              ioq |-> IF onNet THEN q ELSE post_all(q, ps),
              sent |-> TRUE, sends |-> Len(ps)]
    ELSE [queue |-> m_packet_queue, timer |-> m_connection_timer,
          tq |-> tq, wire |-> w, ioq |-> q, sent |-> ns_close_sent, sends |-> 0]

\* socket::impl::on_disconnect as called by sockets_invoke_void
socket_on_disconnect ==
    IF in_map /\ sock_client /\ m_connected
    THEN [connected |-> FALSE, queue |-> <<>>]
    ELSE [connected |-> m_connected, queue |-> m_packet_queue]

\* client_impl::close_impl: the reconnect timer is cancelled and dropped,
\* the transport is asked to close when a session handle is held
close_impl_transport(con, tr) == IF con /\ tr = "open" THEN "closing" ELSE tr
close_impl_code(con, tr, code) == IF con /\ tr = "open" THEN code ELSE local_close_code

\* nothing is left for the event loop: m_client.run() returns
NoWork ==
    /\ io_queue = <<>>
    /\ transport = "none"
    /\ net_pc = "idle"
    /\ m_reconn_timer # "pending"
    /\ m_ping_timeout_timer # "pending"
    /\ m_connection_timer \notin {"connect", "grace"}
    /\ chat.m_connection_timer # "connect"
    /\ timer_q = [reconn |-> 0, ping |-> 0, conn |-> 0, grace |-> 0, aborted |-> 0]
    /\ \A i \in EmitIds : ack_timer[i] \notin {"pending", "fired"}

NetIdle == loop_running /\ net_pc = "idle"

\* k packets go through m_client->send; counted: each is followed by
\* m_packets_sent.fetch_add(1)
count_sent(k, counted) ==
    /\ metrics' = [metrics EXCEPT !.packets_sent = IF counted THEN @ + k ELSE @]
    /\ traffic' = [traffic EXCEPT !.handed = @ + k]

\* on_message_packet for a packet of the socket's namespace:
\* m_packets_received.fetch_add(1)
count_received(k) ==
    /\ metrics' = [metrics EXCEPT !.packets_received = @ + k]
    /\ traffic' = [traffic EXCEPT !.routed = @ + k]


\* client_impl::on_socket_opened with a socket-open listener set
on_socket_opened == [socket_listener_calls EXCEPT !.open = @ + 1]

\* client_impl::on_socket_closed with a socket-close listener set
on_socket_closed == socket_listener_calls' = [socket_listener_calls EXCEPT !.close = @ + 1]

(* ======================================================================= *)
(* client API, called on a user thread                                     *)
(* ======================================================================= *)
\* client::opened
opened == m_con_state = con_opened

\* client_impl::socket("/") with no entry in m_sockets: a socket is
\* constructed; its constructor sends CONNECT only if the client is opened
client_socket ==
    /\ usr_pc = "idle" /\ ~sock_created
    /\ sock_created' = TRUE
    /\ in_map' = TRUE
    /\ sock_client' = TRUE
    /\ io_queue' = IF opened THEN post_all(io_queue, <<ConnectPkt>>) ELSE io_queue
    /\ m_connection_timer' = IF opened THEN "connect" ELSE m_connection_timer
    /\ UNCHANGED <<m_con_state, m_con, m_abort_retries, m_reconn_made,
                   m_reconn_attempts, m_reconn_delay, m_reconn_delay_max,
                   m_reconn_timer, m_ping_timeout_timer, m_has_pending_reason,
                   m_pending_disconnect_reason, m_sid, m_ping_interval, m_ping_timeout,
                   m_network_thread, transport, local_close_code, timer_q,
                   loop_running, net_pc, m_connected, m_packet_queue, m_acks,
                   m_ack_timers, ack_timer, s_global_event_id, usr_pc, em_pc, em_id,
                   em_pkt, em_local, awaiter, wire, reconnect_log, close_log, fail_log,
                   ack_calls, timeout_calls, delay_out, user_closed, close_called,
                   chat, m_event_binding, ev, lk_pc, lk_owner, sock_map, sock_next,
                   sock_ret, event_calls, ack_recv, id_log, enc_out, m_partial_packet,
                   decoded, fed, socket_listener_calls, ping_expired_on, traffic,
                   metrics, ns_close_sent, state_notified, run_timers, dropped,
                   transports_left, n_connects, n_emits, n_inbound, n_closes>>

\* client_impl::socket("/chat") with no entry in m_sockets
client_socket_chat ==
    /\ usr_pc = "idle" /\ ~chat.in_map
    /\ chat' = [chat EXCEPT !.in_map = TRUE,
                            !.m_connection_timer = IF opened THEN "connect" ELSE @]
    /\ io_queue' = IF opened THEN post_all(io_queue, <<ChatConnectPkt>>) ELSE io_queue
    /\ UNCHANGED <<m_con_state, m_con, m_abort_retries, m_reconn_made,
                   m_reconn_attempts, m_reconn_delay, m_reconn_delay_max,
                   m_reconn_timer, m_ping_timeout_timer, m_has_pending_reason,
                   m_pending_disconnect_reason, m_sid, m_ping_interval, m_ping_timeout,
                   m_network_thread, transport, local_close_code, timer_q,
                   loop_running, net_pc, in_map, sock_client, m_connected,
                   m_packet_queue, m_connection_timer, m_acks, m_ack_timers, ack_timer,
                   s_global_event_id, usr_pc, em_pc, em_id, em_pkt, em_local, awaiter,
                   wire, reconnect_log, close_log, fail_log, ack_calls, timeout_calls,
                   delay_out, user_closed, sock_created, close_called, m_event_binding,
                   ev, lk_pc, lk_owner, sock_map, sock_next, sock_ret, event_calls,
                   ack_recv, id_log, enc_out, m_partial_packet, decoded, fed,
                   socket_listener_calls, ping_expired_on, traffic, metrics,
                   ns_close_sent, state_notified, run_timers, dropped, transports_left,
                   n_connects, n_emits, n_inbound, n_closes>>

\* socket::on(event_name, func) on the handle of namespace nsp:
\* m_event_binding[event_name] = func under m_event_mutex
socket_on(nsp, name, f) ==
    /\ usr_pc = "idle"
    /\ IF nsp = "/" THEN sock_created ELSE chat.in_map
    /\ m_event_binding[nsp][name] # f
    /\ m_event_binding' = [m_event_binding EXCEPT ![nsp][name] = f]
    /\ UNCHANGED <<m_con_state, m_con, m_abort_retries, m_reconn_made,
                   m_reconn_attempts, m_reconn_delay, m_reconn_delay_max,
                   m_reconn_timer, m_ping_timeout_timer, m_has_pending_reason,
                   m_pending_disconnect_reason, m_sid, m_ping_interval, m_ping_timeout,
                   m_network_thread, transport, local_close_code, io_queue, timer_q,
                   loop_running, net_pc, in_map, sock_client, m_connected,
                   m_packet_queue, m_connection_timer, m_acks, m_ack_timers, ack_timer,
                   s_global_event_id, usr_pc, em_pc, em_id, em_pkt, em_local, awaiter,
                   wire, reconnect_log, close_log, fail_log, ack_calls, timeout_calls,
                   delay_out, user_closed, sock_created, close_called, chat, ev, lk_pc,
                   lk_owner, sock_map, sock_next, sock_ret, event_calls, ack_recv,
                   id_log, enc_out, m_partial_packet, decoded, fed,
                   socket_listener_calls, ping_expired_on, traffic, metrics,
                   ns_close_sent, state_notified, run_timers, dropped, transports_left,
                   n_connects, n_emits, n_inbound, n_closes>>

\* socket::off(event_name) on the handle of namespace nsp: the entry is
\* erased under m_event_mutex
socket_off(nsp, name) ==
    /\ usr_pc = "idle"
    /\ IF nsp = "/" THEN sock_created ELSE chat.in_map
    /\ m_event_binding[nsp][name] # NoListener
    /\ m_event_binding' = [m_event_binding EXCEPT ![nsp][name] = NoListener]
    /\ UNCHANGED <<m_con_state, m_con, m_abort_retries, m_reconn_made,
                   m_reconn_attempts, m_reconn_delay, m_reconn_delay_max,
                   m_reconn_timer, m_ping_timeout_timer, m_has_pending_reason,
                   m_pending_disconnect_reason, m_sid, m_ping_interval, m_ping_timeout,
                   m_network_thread, transport, local_close_code, io_queue, timer_q,
                   loop_running, net_pc, in_map, sock_client, m_connected,
                   m_packet_queue, m_connection_timer, m_acks, m_ack_timers, ack_timer,
                   s_global_event_id, usr_pc, em_pc, em_id, em_pkt, em_local, awaiter,
                   wire, reconnect_log, close_log, fail_log, ack_calls, timeout_calls,
                   delay_out, user_closed, sock_created, close_called, chat, ev, lk_pc,
                   lk_owner, sock_map, sock_next, sock_ret, event_calls, ack_recv,
                   id_log, enc_out, m_partial_packet, decoded, fed,
                   socket_listener_calls, ping_expired_on, traffic, metrics,
                   ns_close_sent, state_notified, run_timers, dropped, transports_left,
                   n_connects, n_emits, n_inbound, n_closes>>

\* the tail of client_impl::connect, after the old network thread is joined
connect_rest ==
    /\ m_con_state' = con_opening
    /\ state_notified' = notify_state_change("connecting")
    /\ m_reconn_made' = 0
    /\ run_timers' = 0
    /\ m_sid' = ""
    /\ m_abort_retries' = FALSE
    /\ io_queue' = Append(io_queue, Closure("connect_impl", NoPkt))
    /\ m_network_thread' = TRUE
    /\ loop_running' = TRUE
    /\ n_connects' = n_connects + 1
    /\ user_closed' = FALSE
    /\ usr_pc' = "idle"

\* client_impl::connect up to the join of the network thread
connect ==
    /\ usr_pc = "idle" /\ n_connects < MaxConnects
    /\ m_reconn_timer' = "null"
    /\ IF m_network_thread
       THEN /\ usr_pc' = IF m_con_state \in {con_closing, con_closed}
                         THEN "connect_join" ELSE "idle"
            /\ UNCHANGED <<m_con_state, state_notified, m_reconn_made, run_timers, m_sid, m_abort_retries, io_queue,
                           m_network_thread, loop_running, n_connects, user_closed>>
       ELSE connect_rest
    /\ UNCHANGED <<m_con, m_reconn_attempts, m_reconn_delay, m_reconn_delay_max,
                   m_ping_timeout_timer, m_has_pending_reason,
                   m_pending_disconnect_reason, m_ping_interval, m_ping_timeout,
                   transport, local_close_code, timer_q, net_pc, in_map, sock_client,
                   m_connected, m_packet_queue, m_connection_timer, m_acks,
                   m_ack_timers, ack_timer, s_global_event_id, em_pc, em_id, em_pkt,
                   em_local, awaiter, wire, reconnect_log, close_log, fail_log,
                   ack_calls, timeout_calls, delay_out, sock_created, close_called,
                   chat, m_event_binding, ev, lk_pc, lk_owner, sock_map, sock_next,
                   sock_ret, event_calls, ack_recv, id_log, enc_out, m_partial_packet,
                   decoded, fed, socket_listener_calls, ping_expired_on, traffic,
                   metrics, ns_close_sent, dropped, transports_left, n_emits,
                   n_inbound, n_closes>>

\* client_impl::connect: m_network_thread->join() returns when run_loop ended
connect_join ==
    /\ usr_pc = "connect_join" /\ ~loop_running
    /\ connect_rest
    /\ UNCHANGED <<m_con, m_reconn_attempts, m_reconn_delay, m_reconn_delay_max,
                   m_reconn_timer, m_ping_timeout_timer, m_has_pending_reason,
                   m_pending_disconnect_reason, m_ping_interval, m_ping_timeout,
                   transport, local_close_code, timer_q, net_pc, in_map, sock_client,
                   m_connected, m_packet_queue, m_connection_timer, m_acks,
                   m_ack_timers, ack_timer, s_global_event_id, em_pc, em_id, em_pkt,
                   em_local, awaiter, wire, reconnect_log, close_log, fail_log,
                   ack_calls, timeout_calls, delay_out, sock_created, close_called,
                   chat, m_event_binding, ev, lk_pc, lk_owner, sock_map, sock_next,
                   sock_ret, event_calls, ack_recv, id_log, enc_out, m_partial_packet,
                   decoded, fed, socket_listener_calls, ping_expired_on, traffic,
                   metrics, ns_close_sent, dropped, transports_left, n_emits,
                   n_inbound, n_closes>>

\* client_impl::close: the state store
close_store ==
    /\ usr_pc = "idle" /\ n_closes < MaxCloses
    /\ m_con_state' = con_closing
    /\ state_notified' = notify_state_change("closing")
    /\ n_closes' = n_closes + 1
    /\ usr_pc' = "close_b"
    /\ UNCHANGED <<m_con, m_abort_retries, m_reconn_made, m_reconn_attempts,
                   m_reconn_delay, m_reconn_delay_max, m_reconn_timer,
                   m_ping_timeout_timer, m_has_pending_reason,
                   m_pending_disconnect_reason, m_sid, m_ping_interval, m_ping_timeout,
                   m_network_thread, transport, local_close_code, io_queue, timer_q,
                   loop_running, net_pc, in_map, sock_client, m_connected,
                   m_packet_queue, m_connection_timer, m_acks, m_ack_timers, ack_timer,
                   s_global_event_id, em_pc, em_id, em_pkt, em_local, awaiter, wire,
                   reconnect_log, close_log, fail_log, ack_calls, timeout_calls,
                   delay_out, user_closed, sock_created, close_called, chat,
                   m_event_binding, ev, lk_pc, lk_owner, sock_map, sock_next, sock_ret,
                   event_calls, ack_recv, id_log, enc_out, m_partial_packet, decoded,
                   fed, socket_listener_calls, ping_expired_on, traffic, metrics,
                   ns_close_sent, run_timers, dropped, transports_left, n_connects,
                   n_emits, n_inbound>>

\* client_impl::close: abort flag, socket::close for every socket, close_impl posted
close_rest ==
    /\ usr_pc = "close_b"
    /\ m_abort_retries' = TRUE
    /\ LET r == socket_close(FALSE, m_con_state, transport, wire, io_queue, timer_q)
       IN  /\ m_packet_queue' = r.queue
           /\ m_connection_timer' = r.timer
           /\ timer_q' = r.tq
           /\ io_queue' = Append(r.ioq, Closure("close_impl", NoPkt))
           /\ ns_close_sent' = r.sent
           /\ count_sent(r.sends, TRUE)
    /\ user_closed' = TRUE
    /\ usr_pc' = "idle"
    /\ UNCHANGED <<m_con_state, m_con, m_reconn_made, m_reconn_attempts,
                   m_reconn_delay, m_reconn_delay_max, m_reconn_timer,
                   m_ping_timeout_timer, m_has_pending_reason,
                   m_pending_disconnect_reason, m_sid, m_ping_interval, m_ping_timeout,
                   m_network_thread, transport, local_close_code, loop_running, net_pc,
                   in_map, sock_client, m_connected, m_acks, m_ack_timers, ack_timer,
                   s_global_event_id, em_pc, em_id, em_pkt, em_local, awaiter, wire,
                   reconnect_log, close_log, fail_log, ack_calls, timeout_calls,
                   delay_out, sock_created, close_called, chat, m_event_binding, ev,
                   lk_pc, lk_owner, sock_map, sock_next, sock_ret, event_calls,
                   ack_recv, id_log, enc_out, m_partial_packet, decoded, fed,
                   socket_listener_calls, ping_expired_on, state_notified, run_timers,
                   dropped, transports_left, n_connects, n_emits, n_inbound, n_closes>>

\* client_impl::sync_close: the state store
sync_close_store ==
    /\ usr_pc = "idle" /\ n_closes < MaxCloses
    /\ m_con_state' = con_closing
    /\ n_closes' = n_closes + 1
    /\ usr_pc' = "sync_b"
    /\ UNCHANGED <<m_con, m_abort_retries, m_reconn_made, m_reconn_attempts,
                   m_reconn_delay, m_reconn_delay_max, m_reconn_timer,
                   m_ping_timeout_timer, m_has_pending_reason,
                   m_pending_disconnect_reason, m_sid, m_ping_interval, m_ping_timeout,
                   m_network_thread, transport, local_close_code, io_queue, timer_q,
                   loop_running, net_pc, in_map, sock_client, m_connected,
                   m_packet_queue, m_connection_timer, m_acks, m_ack_timers, ack_timer,
                   s_global_event_id, em_pc, em_id, em_pkt, em_local, awaiter, wire,
                   reconnect_log, close_log, fail_log, ack_calls, timeout_calls,
                   delay_out, user_closed, sock_created, close_called, chat,
                   m_event_binding, ev, lk_pc, lk_owner, sock_map, sock_next, sock_ret,
                   event_calls, ack_recv, id_log, enc_out, m_partial_packet, decoded,
                   fed, socket_listener_calls, ping_expired_on, traffic, metrics,
                   ns_close_sent, state_notified, run_timers, dropped, transports_left,
                   n_connects, n_emits, n_inbound>>

\* client_impl::sync_close: abort flag, socket::close, close_impl posted
sync_close_rest ==
    /\ usr_pc = "sync_b"
    /\ m_abort_retries' = TRUE
    /\ LET r == socket_close(FALSE, m_con_state, transport, wire, io_queue, timer_q)
       IN  /\ m_packet_queue' = r.queue
           /\ m_connection_timer' = r.timer
           /\ timer_q' = r.tq
           /\ io_queue' = Append(r.ioq, Closure("close_impl", NoPkt))
           /\ ns_close_sent' = r.sent
           /\ count_sent(r.sends, TRUE)
    /\ user_closed' = ~m_network_thread
    /\ usr_pc' = IF m_network_thread THEN "sync_join" ELSE "idle"
    /\ UNCHANGED <<m_con_state, m_con, m_reconn_made, m_reconn_attempts,
                   m_reconn_delay, m_reconn_delay_max, m_reconn_timer,
                   m_ping_timeout_timer, m_has_pending_reason,
                   m_pending_disconnect_reason, m_sid, m_ping_interval, m_ping_timeout,
                   m_network_thread, transport, local_close_code, loop_running, net_pc,
                   in_map, sock_client, m_connected, m_acks, m_ack_timers, ack_timer,
                   s_global_event_id, em_pc, em_id, em_pkt, em_local, awaiter, wire,
                   reconnect_log, close_log, fail_log, ack_calls, timeout_calls,
                   delay_out, sock_created, close_called, chat, m_event_binding, ev,
                   lk_pc, lk_owner, sock_map, sock_next, sock_ret, event_calls,
                   ack_recv, id_log, enc_out, m_partial_packet, decoded, fed,
                   socket_listener_calls, ping_expired_on, state_notified, run_timers,
                   dropped, transports_left, n_connects, n_emits, n_inbound, n_closes>>

\* client_impl::sync_close: the join returns when run_loop ended
sync_close_join ==
    /\ usr_pc = "sync_join" /\ ~loop_running
    /\ m_network_thread' = FALSE
    /\ user_closed' = TRUE
    /\ usr_pc' = "idle"
    /\ UNCHANGED <<m_con_state, m_con, m_abort_retries, m_reconn_made,
                   m_reconn_attempts, m_reconn_delay, m_reconn_delay_max,
                   m_reconn_timer, m_ping_timeout_timer, m_has_pending_reason,
                   m_pending_disconnect_reason, m_sid, m_ping_interval, m_ping_timeout,
                   transport, local_close_code, io_queue, timer_q, loop_running,
                   net_pc, in_map, sock_client, m_connected, m_packet_queue,
                   m_connection_timer, m_acks, m_ack_timers, ack_timer,
                   s_global_event_id, em_pc, em_id, em_pkt, em_local, awaiter, wire,
                   reconnect_log, close_log, fail_log, ack_calls, timeout_calls,
                   delay_out, sock_created, close_called, chat, m_event_binding, ev,
                   lk_pc, lk_owner, sock_map, sock_next, sock_ret, event_calls,
                   ack_recv, id_log, enc_out, m_partial_packet, decoded, fed,
                   socket_listener_calls, ping_expired_on, traffic, metrics,
                   ns_close_sent, state_notified, run_timers, dropped, transports_left,
                   n_connects, n_emits, n_inbound, n_closes>>

(* ======================================================================= *)
(* closures posted to the io_context, run by the network thread            *)
(* ======================================================================= *)
\* client_impl::connect_impl: get_connection may fail; otherwise the
\* transport starts to connect
connect_impl_effect ==
    \E ok \in BOOLEAN :
        IF ok
        THEN /\ transports_left > 0
             /\ transport' = "opening"
             /\ transports_left' = transports_left - 1
             /\ fail_log' = fail_log
        ELSE /\ fail_log' = Append(fail_log, "network_failure")
             /\ UNCHANGED <<transport, transports_left>>

run_connect_impl ==
    /\ NetIdle /\ io_queue # <<>> /\ Head(io_queue).op = "connect_impl"
    /\ io_queue' = Tail(io_queue)
    /\ connect_impl_effect
    /\ UNCHANGED <<m_con_state, m_con, m_abort_retries, m_reconn_made,
                   m_reconn_attempts, m_reconn_delay, m_reconn_delay_max,
                   m_reconn_timer, m_ping_timeout_timer, m_has_pending_reason,
                   m_pending_disconnect_reason, m_sid, m_ping_interval, m_ping_timeout,
                   m_network_thread, local_close_code, timer_q, loop_running, net_pc,
                   in_map, sock_client, m_connected, m_packet_queue,
                   m_connection_timer, m_acks, m_ack_timers, ack_timer,
                   s_global_event_id, usr_pc, em_pc, em_id, em_pkt, em_local, awaiter,
                   wire, reconnect_log, close_log, ack_calls, timeout_calls, delay_out,
                   user_closed, sock_created, close_called, chat, m_event_binding, ev,
                   lk_pc, lk_owner, sock_map, sock_next, sock_ret, event_calls,
                   ack_recv, id_log, enc_out, m_partial_packet, decoded, fed,
                   socket_listener_calls, ping_expired_on, traffic, metrics,
                   ns_close_sent, state_notified, run_timers, dropped, n_connects,
                   n_emits, n_inbound, n_closes>>

\* client_impl::close_impl(normal, "End by user") posted by close()
run_close_impl ==
    /\ NetIdle /\ io_queue # <<>> /\ Head(io_queue).op = "close_impl"
    /\ io_queue' = Tail(io_queue)
    /\ m_reconn_timer' = "null"
    /\ transport' = close_impl_transport(m_con, transport)
    /\ local_close_code' = close_impl_code(m_con, transport, "normal")
    /\ UNCHANGED <<m_con_state, m_con, m_abort_retries, m_reconn_made,
                   m_reconn_attempts, m_reconn_delay, m_reconn_delay_max,
                   m_ping_timeout_timer, m_has_pending_reason,
                   m_pending_disconnect_reason, m_sid, m_ping_interval, m_ping_timeout,
                   m_network_thread, timer_q, loop_running, net_pc, in_map,
                   sock_client, m_connected, m_packet_queue, m_connection_timer,
                   m_acks, m_ack_timers, ack_timer, s_global_event_id, usr_pc, em_pc,
                   em_id, em_pkt, em_local, awaiter, wire, reconnect_log, close_log,
                   fail_log, ack_calls, timeout_calls, delay_out, user_closed,
                   sock_created, close_called, chat, m_event_binding, ev, lk_pc,
                   lk_owner, sock_map, sock_next, sock_ret, event_calls, ack_recv,
                   id_log, enc_out, m_partial_packet, decoded, fed,
                   socket_listener_calls, ping_expired_on, traffic, metrics,
                   ns_close_sent, state_notified, run_timers, dropped, transports_left,
                   n_connects, n_emits, n_inbound, n_closes>>

\* client_impl::send_impl posted by on_encode
run_send_impl ==
    /\ NetIdle /\ io_queue # <<>> /\ Head(io_queue).op = "send_impl"
    /\ io_queue' = Tail(io_queue)
    /\ wire' = send_impl(wire, m_con_state, transport, Head(io_queue).pkt)
    /\ UNCHANGED <<m_con_state, m_con, m_abort_retries, m_reconn_made,
                   m_reconn_attempts, m_reconn_delay, m_reconn_delay_max,
                   m_reconn_timer, m_ping_timeout_timer, m_has_pending_reason,
                   m_pending_disconnect_reason, m_sid, m_ping_interval, m_ping_timeout,
                   m_network_thread, transport, local_close_code, timer_q,
                   loop_running, net_pc, in_map, sock_client, m_connected,
                   m_packet_queue, m_connection_timer, m_acks, m_ack_timers, ack_timer,
                   s_global_event_id, usr_pc, em_pc, em_id, em_pkt, em_local, awaiter,
                   reconnect_log, close_log, fail_log, ack_calls, timeout_calls,
                   delay_out, user_closed, sock_created, close_called, chat,
                   m_event_binding, ev, lk_pc, lk_owner, sock_map, sock_next, sock_ret,
                   event_calls, ack_recv, id_log, enc_out, m_partial_packet, decoded,
                   fed, socket_listener_calls, ping_expired_on, traffic, metrics,
                   ns_close_sent, state_notified, run_timers, dropped, transports_left,
                   n_connects, n_emits, n_inbound, n_closes>>

(* ---------------- ~client_impl on the destroying thread --------------- *)
\* ~client_impl: sockets_invoke_void(&socket::on_close) copies the sockets
\* of the map; socket::impl::on_close reads m_client (NULL_GUARD)
destroy_guard ==
    /\ usr_pc = "idle" /\ em_pc = "idle" /\ sock_created
    /\ usr_pc' = IF in_map /\ sock_client THEN "dtor_close" ELSE "dtor_sync"
    /\ UNCHANGED <<m_con_state, m_con, m_abort_retries, m_reconn_made,
                   m_reconn_attempts, m_reconn_delay, m_reconn_delay_max,
                   m_reconn_timer, m_ping_timeout_timer, m_has_pending_reason,
                   m_pending_disconnect_reason, m_sid, m_ping_interval, m_ping_timeout,
                   m_network_thread, transport, local_close_code, io_queue, timer_q,
                   loop_running, net_pc, in_map, sock_client, m_connected,
                   m_packet_queue, m_connection_timer, m_acks, m_ack_timers, ack_timer,
                   s_global_event_id, em_pc, em_id, em_pkt, em_local, awaiter, wire,
                   reconnect_log, close_log, fail_log, ack_calls, timeout_calls,
                   delay_out, user_closed, sock_created, close_called, chat,
                   m_event_binding, ev, lk_pc, lk_owner, sock_map, sock_next, sock_ret,
                   event_calls, ack_recv, id_log, enc_out, m_partial_packet, decoded,
                   fed, socket_listener_calls, ping_expired_on, traffic, metrics,
                   ns_close_sent, state_notified, run_timers, dropped, transports_left,
                   n_connects, n_emits, n_inbound, n_closes>>

\* socket::impl::on_close after the NULL_GUARD, on the destroying thread:
\* m_client is not read again before it is cleared
destroy_on_close ==
    /\ usr_pc = "dtor_close"
    /\ usr_pc' = "dtor_sync"
    /\ on_socket_closed
    /\ m_connection_timer' = "null"
    /\ timer_q' = cancel_connection_timer(timer_q)
    /\ m_connected' = FALSE
    /\ m_packet_queue' = <<>>
    /\ sock_client' = FALSE
    /\ in_map' = FALSE
    /\ UNCHANGED <<m_con_state, m_con, m_abort_retries, m_reconn_made,
                   m_reconn_attempts, m_reconn_delay, m_reconn_delay_max,
                   m_reconn_timer, m_ping_timeout_timer, m_has_pending_reason,
                   m_pending_disconnect_reason, m_sid, m_ping_interval, m_ping_timeout,
                   m_network_thread, transport, local_close_code, io_queue,
                   loop_running, net_pc, m_acks, m_ack_timers, ack_timer,
                   s_global_event_id, em_pc, em_id, em_pkt, em_local, awaiter, wire,
                   reconnect_log, close_log, fail_log, ack_calls, timeout_calls,
                   delay_out, user_closed, sock_created, close_called, chat,
                   m_event_binding, ev, lk_pc, lk_owner, sock_map, sock_next, sock_ret,
                   event_calls, ack_recv, id_log, enc_out, m_partial_packet, decoded,
                   fed, ping_expired_on, traffic, metrics, ns_close_sent,
                   state_notified, run_timers, dropped, transports_left, n_connects,
                   n_emits, n_inbound, n_closes>>

\* ~client_impl: sync_close up to the join
destroy_sync_close ==
    /\ usr_pc = "dtor_sync"
    /\ m_con_state' = con_closing
    /\ m_abort_retries' = TRUE
    /\ LET r == socket_close(FALSE, con_closing, transport, wire, io_queue, timer_q)
       IN  /\ m_packet_queue' = r.queue
           /\ m_connection_timer' = r.timer
           /\ timer_q' = r.tq
           /\ io_queue' = Append(r.ioq, Closure("close_impl", NoPkt))
           /\ ns_close_sent' = r.sent
           /\ count_sent(r.sends, TRUE)
    /\ user_closed' = TRUE
    /\ usr_pc' = IF m_network_thread THEN "dtor_join" ELSE "destroyed"
    /\ UNCHANGED <<m_con, m_reconn_made, m_reconn_attempts, m_reconn_delay,
                   m_reconn_delay_max, m_reconn_timer, m_ping_timeout_timer,
                   m_has_pending_reason, m_pending_disconnect_reason, m_sid,
                   m_ping_interval, m_ping_timeout, m_network_thread, transport,
                   local_close_code, loop_running, net_pc, in_map, sock_client,
                   m_connected, m_acks, m_ack_timers, ack_timer, s_global_event_id,
                   em_pc, em_id, em_pkt, em_local, awaiter, wire, reconnect_log,
                   close_log, fail_log, ack_calls, timeout_calls, delay_out,
                   sock_created, close_called, chat, m_event_binding, ev, lk_pc,
                   lk_owner, sock_map, sock_next, sock_ret, event_calls, ack_recv,
                   id_log, enc_out, m_partial_packet, decoded, fed,
                   socket_listener_calls, ping_expired_on, state_notified, run_timers,
                   dropped, transports_left, n_connects, n_emits, n_inbound, n_closes>>

\* ~client_impl: sync_close's join returns when run_loop ended
destroy_join ==
    /\ usr_pc = "dtor_join" /\ ~loop_running
    /\ m_network_thread' = FALSE
    /\ usr_pc' = "destroyed"
    /\ UNCHANGED <<m_con_state, m_con, m_abort_retries, m_reconn_made,
                   m_reconn_attempts, m_reconn_delay, m_reconn_delay_max,
                   m_reconn_timer, m_ping_timeout_timer, m_has_pending_reason,
                   m_pending_disconnect_reason, m_sid, m_ping_interval, m_ping_timeout,
                   transport, local_close_code, io_queue, timer_q, loop_running,
                   net_pc, in_map, sock_client, m_connected, m_packet_queue,
                   m_connection_timer, m_acks, m_ack_timers, ack_timer,
                   s_global_event_id, em_pc, em_id, em_pkt, em_local, awaiter, wire,
                   reconnect_log, close_log, fail_log, ack_calls, timeout_calls,
                   delay_out, user_closed, sock_created, close_called, chat,
                   m_event_binding, ev, lk_pc, lk_owner, sock_map, sock_next, sock_ret,
                   event_calls, ack_recv, id_log, enc_out, m_partial_packet, decoded,
                   fed, socket_listener_calls, ping_expired_on, traffic, metrics,
                   ns_close_sent, state_notified, run_timers, dropped, transports_left,
                   n_connects, n_emits, n_inbound, n_closes>>

\* client_impl::run_loop: m_client.run() returns when no work is left
run_loop_end ==
    /\ loop_running /\ NoWork
    /\ loop_running' = FALSE
    /\ UNCHANGED <<m_con_state, m_con, m_abort_retries, m_reconn_made,
                   m_reconn_attempts, m_reconn_delay, m_reconn_delay_max,
                   m_reconn_timer, m_ping_timeout_timer, m_has_pending_reason,
                   m_pending_disconnect_reason, m_sid, m_ping_interval, m_ping_timeout,
                   m_network_thread, transport, local_close_code, io_queue, timer_q,
                   net_pc, in_map, sock_client, m_connected, m_packet_queue,
                   m_connection_timer, m_acks, m_ack_timers, ack_timer,
                   s_global_event_id, usr_pc, em_pc, em_id, em_pkt, em_local, awaiter,
                   wire, reconnect_log, close_log, fail_log, ack_calls, timeout_calls,
                   delay_out, user_closed, sock_created, close_called, chat,
                   m_event_binding, ev, lk_pc, lk_owner, sock_map, sock_next, sock_ret,
                   event_calls, ack_recv, id_log, enc_out, m_partial_packet, decoded,
                   fed, socket_listener_calls, ping_expired_on, traffic, metrics,
                   ns_close_sent, state_notified, run_timers, dropped, transports_left,
                   n_connects, n_emits, n_inbound, n_closes>>

(* ======================================================================= *)
(* transport handlers of client_impl, run by the network thread            *)
(* ======================================================================= *)
\* a closure posted before the transport finished connecting or before the
\* reconnect delay elapsed is run before that completion is handled
PostedFirst == io_queue = <<>>

\* a plausible slip: the counter is reset as soon as the transport opens
reconn_made_after_open_reset(closing) == IF closing THEN m_reconn_made ELSE 0

\* on_open leaves m_reconn_made alone ("Do not reset reconnection counter here")
reconn_made_after_open(closing) == m_reconn_made

\* client_impl::on_open up to m_con = con; sockets_invoke_void follows
on_open ==
    /\ NetIdle /\ PostedFirst /\ transport = "opening"
    /\ LET closing == m_con_state = con_closing
           \* closing: this->close() with close_impl run inline
           r == socket_close(TRUE, con_closing, "open", wire, io_queue, timer_q)
       IN  /\ m_con_state' = IF closing THEN con_closing ELSE con_opened
           /\ state_notified' = notify_state_change(IF closing THEN "closing" ELSE "connected")
           /\ m_abort_retries' = IF closing THEN TRUE ELSE m_abort_retries
           /\ m_reconn_timer' = IF closing THEN "null" ELSE m_reconn_timer
           /\ m_con' = IF closing THEN m_con ELSE TRUE
           /\ transport' = IF closing THEN close_impl_transport(m_con, "open") ELSE "open"
           /\ local_close_code' = IF closing THEN close_impl_code(m_con, "open", "normal")
                                  ELSE local_close_code
           /\ m_reconn_made' = reconn_made_after_open(closing)
           /\ m_packet_queue' = IF closing THEN r.queue ELSE m_packet_queue
           /\ m_connection_timer' = IF closing THEN r.timer ELSE m_connection_timer
           /\ timer_q' = IF closing THEN r.tq ELSE timer_q
           /\ wire' = IF closing THEN r.wire ELSE wire
           /\ ns_close_sent' = IF closing THEN r.sent ELSE ns_close_sent
           /\ count_sent(IF closing THEN r.sends ELSE 0, TRUE)
           /\ net_pc' = IF closing THEN "idle" ELSE "open_sockets"
    /\ UNCHANGED <<m_reconn_attempts, m_reconn_delay, m_reconn_delay_max,
                   m_ping_timeout_timer, m_has_pending_reason,
                   m_pending_disconnect_reason, m_sid, m_ping_interval, m_ping_timeout,
                   m_network_thread, io_queue, loop_running, in_map, sock_client,
                   m_connected, m_acks, m_ack_timers, ack_timer, s_global_event_id,
                   usr_pc, em_pc, em_id, em_pkt, em_local, awaiter, reconnect_log,
                   close_log, fail_log, ack_calls, timeout_calls, delay_out,
                   user_closed, sock_created, close_called, chat, m_event_binding, ev,
                   lk_pc, lk_owner, sock_map, sock_next, sock_ret, event_calls,
                   ack_recv, id_log, enc_out, m_partial_packet, decoded, fed,
                   socket_listener_calls, ping_expired_on, run_timers, dropped,
                   transports_left, n_connects, n_emits, n_inbound, n_closes>>

\* on_open's sockets_invoke_void(&socket::on_open): the sockets in the map
\* are copied under m_socket_mutex, then socket::on_open -> send_connect
on_open_sockets ==
    /\ loop_running /\ net_pc = "open_sockets"
    /\ net_pc' = "idle"
    /\ m_connection_timer' = IF in_map THEN "connect" ELSE m_connection_timer
    /\ timer_q' = IF in_map THEN cancel_connection_timer(timer_q) ELSE timer_q
    /\ chat' = IF chat.in_map THEN [chat EXCEPT !.m_connection_timer = "connect"] ELSE chat
    /\ wire' = send_all(wire, m_con_state, transport,
                        (IF in_map THEN <<ConnectPkt>> ELSE <<>>)
                            \o (IF chat.in_map THEN <<ChatConnectPkt>> ELSE <<>>))
    /\ UNCHANGED <<m_con_state, m_con, m_abort_retries, m_reconn_made,
                   m_reconn_attempts, m_reconn_delay, m_reconn_delay_max,
                   m_reconn_timer, m_ping_timeout_timer, m_has_pending_reason,
                   m_pending_disconnect_reason, m_sid, m_ping_interval, m_ping_timeout,
                   m_network_thread, transport, local_close_code, io_queue,
                   loop_running, in_map, sock_client, m_connected, m_packet_queue,
                   m_acks, m_ack_timers, ack_timer, s_global_event_id, usr_pc, em_pc,
                   em_id, em_pkt, em_local, awaiter, reconnect_log, close_log,
                   fail_log, ack_calls, timeout_calls, delay_out, user_closed,
                   sock_created, close_called, m_event_binding, ev, lk_pc, lk_owner,
                   sock_map, sock_next, sock_ret, event_calls, ack_recv, id_log,
                   enc_out, m_partial_packet, decoded, fed, socket_listener_calls,
                   ping_expired_on, traffic, metrics, ns_close_sent, state_notified,
                   run_timers, dropped, transports_left, n_connects, n_emits,
                   n_inbound, n_closes>>

\* a plausible slip: the attempt limit is not consulted when the transport fails
may_retry_unlimited == ~m_abort_retries

\* on_fail's retry test
may_retry == m_reconn_made < m_reconn_attempts /\ ~m_abort_retries

\* client_impl::on_fail
on_fail ==
    /\ NetIdle /\ PostedFirst /\ transport = "opening"
    /\ LET closing == m_con_state = con_closing
           r == socket_close(TRUE, con_closing, "none", wire, io_queue, timer_q)
           d == socket_on_disconnect
           retry == may_retry
       IN  /\ transport' = "none"
           /\ m_con_state' = IF closing THEN con_closing ELSE con_closed
           /\ state_notified' = notify_state_change(IF closing THEN "closing" ELSE "disconnected")
           /\ m_abort_retries' = IF closing THEN TRUE ELSE m_abort_retries
           /\ m_con' = IF closing THEN m_con ELSE FALSE
           /\ m_packet_queue' = IF closing THEN r.queue ELSE d.queue
           /\ m_connected' = IF closing THEN m_connected ELSE d.connected
           /\ m_connection_timer' = IF closing THEN r.timer ELSE m_connection_timer
           /\ timer_q' = IF closing THEN r.tq ELSE timer_q
           /\ wire' = IF closing THEN r.wire ELSE wire
           /\ ns_close_sent' = IF closing THEN r.sent ELSE ns_close_sent
           /\ count_sent(IF closing THEN r.sends ELSE 0, TRUE)
           /\ m_reconn_timer' = IF closing THEN "null"
                                ELSE IF retry THEN "pending" ELSE m_reconn_timer
           /\ reconnect_log' =
                IF ~closing /\ retry
                THEN Append(reconnect_log,
                            <<m_reconn_made,
                              next_delay(m_reconn_delay, m_reconn_made, m_reconn_delay_max)>>)
                ELSE reconnect_log
           /\ fail_log' = IF ~closing /\ ~retry THEN Append(fail_log, "timeout") ELSE fail_log
           /\ run_timers' = IF ~closing /\ retry THEN run_timers + 1 ELSE run_timers
    /\ UNCHANGED <<m_reconn_made, m_reconn_attempts, m_reconn_delay,
                   m_reconn_delay_max, m_ping_timeout_timer, m_has_pending_reason,
                   m_pending_disconnect_reason, m_sid, m_ping_interval, m_ping_timeout,
                   m_network_thread, local_close_code, io_queue, loop_running, net_pc,
                   in_map, sock_client, m_acks, m_ack_timers, ack_timer,
                   s_global_event_id, usr_pc, em_pc, em_id, em_pkt, em_local, awaiter,
                   close_log, ack_calls, timeout_calls, delay_out, user_closed,
                   sock_created, close_called, chat, m_event_binding, ev, lk_pc,
                   lk_owner, sock_map, sock_next, sock_ret, event_calls, ack_recv,
                   id_log, enc_out, m_partial_packet, decoded, fed,
                   socket_listener_calls, ping_expired_on, dropped, transports_left,
                   n_connects, n_emits, n_inbound, n_closes>>

CloseCodes == {"normal", "going_away", "abnormal_close"}

\* a plausible slip: the user's close is not told from a close by the peer
close_reason_by_code_only(was, code) ==
    IF m_has_pending_reason THEN m_pending_disconnect_reason
    ELSE IF code \in {"normal", "going_away"} THEN "server_disconnect"
    ELSE "transport_error"

\* the reason on_close hands to the close listener when it reaches it
close_reason(was, code) ==
    LET user == was = con_closing \/ m_abort_retries
        first == IF m_has_pending_reason THEN m_pending_disconnect_reason
                 ELSE IF user THEN "client_disconnect"
                 ELSE IF code \in {"normal", "going_away"} THEN "server_disconnect"
                 ELSE "transport_error"
    IN  IF ~user /\ ~(m_reconn_made < m_reconn_attempts)
        THEN "max_reconnect_attempts" ELSE first

\* a plausible slip: a close the user asked for is retried like a drop
no_reconnect_never(was) == FALSE

\* on_close's test before it schedules a reconnect: "Don't reconnect - user
\* initiated or aborted"
no_reconnect(was) == was = con_closing \/ m_abort_retries

\* client_impl::on_close; c is the local close code of a close the peer or
\* the network started
on_close(c) ==
    /\ NetIdle /\ transport \in {"open", "closing"}
    /\ LET was == m_con_state
           code == IF transport = "closing" THEN local_close_code ELSE c
           user == no_reconnect(was)
           retry == ~user /\ m_reconn_made < m_reconn_attempts
           d == socket_on_disconnect
       IN  /\ transport' = "none"
           /\ m_con_state' = con_closed
           /\ state_notified' = notify_state_change("disconnected")
           /\ m_con' = FALSE
           /\ dropped' = (dropped \/ transport = "open")
           /\ m_ping_timeout_timer' = "null"
           /\ m_has_pending_reason' = FALSE
           /\ m_connected' = d.connected
           /\ m_packet_queue' = d.queue
           /\ m_reconn_timer' = IF retry THEN "pending" ELSE m_reconn_timer
           /\ run_timers' = IF retry THEN run_timers + 1 ELSE run_timers
           /\ reconnect_log' =
                IF retry
                THEN Append(reconnect_log,
                            <<m_reconn_made,
                              next_delay(m_reconn_delay, m_reconn_made, m_reconn_delay_max)>>)
                ELSE reconnect_log
           /\ close_log' = IF retry THEN close_log
                           ELSE Append(close_log, close_reason(was, code))
    /\ UNCHANGED <<m_abort_retries, m_reconn_made, m_reconn_attempts, m_reconn_delay,
                   m_reconn_delay_max, m_pending_disconnect_reason, m_sid,
                   m_ping_interval, m_ping_timeout, m_network_thread, local_close_code,
                   io_queue, timer_q, loop_running, net_pc, in_map, sock_client,
                   m_connection_timer, m_acks, m_ack_timers, ack_timer,
                   s_global_event_id, usr_pc, em_pc, em_id, em_pkt, em_local, awaiter,
                   wire, fail_log, ack_calls, timeout_calls, delay_out, user_closed,
                   sock_created, close_called, chat, m_event_binding, ev, lk_pc,
                   lk_owner, sock_map, sock_next, sock_ret, event_calls, ack_recv,
                   id_log, enc_out, m_partial_packet, decoded, fed,
                   socket_listener_calls, ping_expired_on, traffic, metrics,
                   ns_close_sent, transports_left, n_connects, n_emits, n_inbound,
                   n_closes>>

HandshakeKinds ==
    {"sid_and_ping", "sid_interval", "sid_timeout", "sid_only", "no_sid", "not_object"}

\* the OPEN payloads the connect, close and retry scenarios draw from
EngineKinds == {"sid_and_ping", "sid_only", "no_sid"}

\* the OPEN payloads that are objects with a sid
SidKinds == {"sid_and_ping", "sid_interval", "sid_timeout", "sid_only"}

\* values a server sends for pingInterval and pingTimeout
SentPingInterval == 1000
SentPingTimeout == 500

\* client_impl::on_handshake for an inbound OPEN packet
on_handshake(kind) ==
    /\ NetIdle /\ transport = "open" /\ n_inbound < MaxInbound
    /\ n_inbound' = n_inbound + 1
    /\ LET ok == kind \in SidKinds
       IN  /\ m_sid' = IF ok THEN "sid" ELSE m_sid
           /\ m_ping_interval' = IF ~ok THEN m_ping_interval
                                 ELSE IF kind \in {"sid_and_ping", "sid_interval"}
                                 THEN SentPingInterval
                                 ELSE DefaultPingInterval
           /\ m_ping_timeout' = IF ~ok THEN m_ping_timeout
                                ELSE IF kind \in {"sid_and_ping", "sid_timeout"}
                                THEN SentPingTimeout
                                ELSE DefaultPingTimeout
           /\ m_ping_timeout_timer' = IF ok THEN "pending" ELSE m_ping_timeout_timer
           /\ m_reconn_made' = IF ok THEN 0 ELSE m_reconn_made
           /\ run_timers' = IF ok THEN 0 ELSE run_timers
           \* failed: close_impl(policy_violation, "Handshake error") dispatched inline
           /\ m_reconn_timer' = IF ok THEN m_reconn_timer ELSE "null"
           /\ transport' = IF ok THEN transport ELSE close_impl_transport(m_con, transport)
           /\ local_close_code' = IF ok THEN local_close_code
                                  ELSE close_impl_code(m_con, transport, "policy_violation")
    /\ UNCHANGED <<m_con_state, m_con, m_abort_retries, m_reconn_attempts,
                   m_reconn_delay, m_reconn_delay_max, m_has_pending_reason,
                   m_pending_disconnect_reason, m_network_thread, io_queue, timer_q,
                   loop_running, net_pc, in_map, sock_client, m_connected,
                   m_packet_queue, m_connection_timer, m_acks, m_ack_timers, ack_timer,
                   s_global_event_id, usr_pc, em_pc, em_id, em_pkt, em_local, awaiter,
                   wire, reconnect_log, close_log, fail_log, ack_calls, timeout_calls,
                   delay_out, user_closed, sock_created, close_called, chat,
                   m_event_binding, ev, lk_pc, lk_owner, sock_map, sock_next, sock_ret,
                   event_calls, ack_recv, id_log, enc_out, m_partial_packet, decoded,
                   fed, socket_listener_calls, ping_expired_on, traffic, metrics,
                   ns_close_sent, state_notified, dropped, transports_left, n_connects,
                   n_emits, n_closes>>

on_handshake_ok == \E kind \in SidKinds : on_handshake(kind)

\* client_impl::on_ping for an inbound PING: PONG is written, the timer re-armed
on_ping ==
    /\ NetIdle /\ transport = "open" /\ n_inbound < MaxInbound
    /\ n_inbound' = n_inbound + 1
    /\ wire' = IF m_con THEN Append(wire, PongPkt) ELSE wire
    /\ m_ping_timeout_timer' = "pending"
    /\ UNCHANGED <<m_con_state, m_con, m_abort_retries, m_reconn_made,
                   m_reconn_attempts, m_reconn_delay, m_reconn_delay_max,
                   m_reconn_timer, m_has_pending_reason, m_pending_disconnect_reason,
                   m_sid, m_ping_interval, m_ping_timeout, m_network_thread, transport,
                   local_close_code, io_queue, timer_q, loop_running, net_pc, in_map,
                   sock_client, m_connected, m_packet_queue, m_connection_timer,
                   m_acks, m_ack_timers, ack_timer, s_global_event_id, usr_pc, em_pc,
                   em_id, em_pkt, em_local, awaiter, reconnect_log, close_log,
                   fail_log, ack_calls, timeout_calls, delay_out, user_closed,
                   sock_created, close_called, chat, m_event_binding, ev, lk_pc,
                   lk_owner, sock_map, sock_next, sock_ret, event_calls, ack_recv,
                   id_log, enc_out, m_partial_packet, decoded, fed,
                   socket_listener_calls, ping_expired_on, traffic, metrics,
                   ns_close_sent, state_notified, run_timers, dropped, transports_left,
                   n_connects, n_emits, n_closes>>

\* client_impl::on_decode, frame_close: close_impl(abnormal_close, "End by server")
on_close_frame ==
    /\ NetIdle /\ transport = "open" /\ n_inbound < MaxInbound
    /\ n_inbound' = n_inbound + 1
    /\ m_reconn_timer' = "null"
    /\ transport' = close_impl_transport(m_con, transport)
    /\ local_close_code' = close_impl_code(m_con, transport, "abnormal_close")
    /\ UNCHANGED <<m_con_state, m_con, m_abort_retries, m_reconn_made,
                   m_reconn_attempts, m_reconn_delay, m_reconn_delay_max,
                   m_ping_timeout_timer, m_has_pending_reason,
                   m_pending_disconnect_reason, m_sid, m_ping_interval, m_ping_timeout,
                   m_network_thread, io_queue, timer_q, loop_running, net_pc, in_map,
                   sock_client, m_connected, m_packet_queue, m_connection_timer,
                   m_acks, m_ack_timers, ack_timer, s_global_event_id, usr_pc, em_pc,
                   em_id, em_pkt, em_local, awaiter, wire, reconnect_log, close_log,
                   fail_log, ack_calls, timeout_calls, delay_out, user_closed,
                   sock_created, close_called, chat, m_event_binding, ev, lk_pc,
                   lk_owner, sock_map, sock_next, sock_ret, event_calls, ack_recv,
                   id_log, enc_out, m_partial_packet, decoded, fed,
                   socket_listener_calls, ping_expired_on, traffic, metrics,
                   ns_close_sent, state_notified, run_timers, dropped, transports_left,
                   n_connects, n_emits, n_closes>>

(* ------------------------- engine timers ----------------------------- *)
\* the ping-timeout wait completes
ping_timer_expire ==
    /\ loop_running /\ m_ping_timeout_timer = "pending" /\ timer_q.ping = 0
    /\ m_ping_timeout_timer' = "idle"
    /\ timer_q' = [timer_q EXCEPT !.ping = 1]
    /\ ping_expired_on' = TransportsUsed
    /\ UNCHANGED <<m_con_state, m_con, m_abort_retries, m_reconn_made,
                   m_reconn_attempts, m_reconn_delay, m_reconn_delay_max,
                   m_reconn_timer, m_has_pending_reason, m_pending_disconnect_reason,
                   m_sid, m_ping_interval, m_ping_timeout, m_network_thread, transport,
                   local_close_code, io_queue, loop_running, net_pc, in_map,
                   sock_client, m_connected, m_packet_queue, m_connection_timer,
                   m_acks, m_ack_timers, ack_timer, s_global_event_id, usr_pc, em_pc,
                   em_id, em_pkt, em_local, awaiter, wire, reconnect_log, close_log,
                   fail_log, ack_calls, timeout_calls, delay_out, user_closed,
                   sock_created, close_called, chat, m_event_binding, ev, lk_pc,
                   lk_owner, sock_map, sock_next, sock_ret, event_calls, ack_recv,
                   id_log, enc_out, m_partial_packet, decoded, fed,
                   socket_listener_calls, traffic, metrics, ns_close_sent,
                   state_notified, run_timers, dropped, transports_left, n_connects,
                   n_emits, n_inbound, n_closes>>

\* client_impl::timeout_ping with no error code
timeout_ping ==
    /\ NetIdle /\ timer_q.ping > 0
    /\ timer_q' = [timer_q EXCEPT !.ping = @ - 1]
    /\ m_pending_disconnect_reason' = "ping_timeout"
    /\ m_has_pending_reason' = TRUE
    \* close_impl(policy_violation, "Ping timeout") dispatched inline
    /\ m_reconn_timer' = "null"
    /\ transport' = close_impl_transport(m_con, transport)
    /\ local_close_code' = close_impl_code(m_con, transport, "policy_violation")
    /\ UNCHANGED <<m_con_state, m_con, m_abort_retries, m_reconn_made,
                   m_reconn_attempts, m_reconn_delay, m_reconn_delay_max,
                   m_ping_timeout_timer, m_sid, m_ping_interval, m_ping_timeout,
                   m_network_thread, io_queue, loop_running, net_pc, in_map,
                   sock_client, m_connected, m_packet_queue, m_connection_timer,
                   m_acks, m_ack_timers, ack_timer, s_global_event_id, usr_pc, em_pc,
                   em_id, em_pkt, em_local, awaiter, wire, reconnect_log, close_log,
                   fail_log, ack_calls, timeout_calls, delay_out, user_closed,
                   sock_created, close_called, chat, m_event_binding, ev, lk_pc,
                   lk_owner, sock_map, sock_next, sock_ret, event_calls, ack_recv,
                   id_log, enc_out, m_partial_packet, decoded, fed,
                   socket_listener_calls, ping_expired_on, traffic, metrics,
                   ns_close_sent, state_notified, run_timers, dropped, transports_left,
                   n_connects, n_emits, n_inbound, n_closes>>

\* the reconnect delay elapses
reconn_timer_expire ==
    /\ loop_running /\ m_reconn_timer = "pending" /\ timer_q.reconn = 0
    /\ m_reconn_timer' = "idle"
    /\ timer_q' = [timer_q EXCEPT !.reconn = 1]
    /\ UNCHANGED <<m_con_state, m_con, m_abort_retries, m_reconn_made,
                   m_reconn_attempts, m_reconn_delay, m_reconn_delay_max,
                   m_ping_timeout_timer, m_has_pending_reason,
                   m_pending_disconnect_reason, m_sid, m_ping_interval, m_ping_timeout,
                   m_network_thread, transport, local_close_code, io_queue,
                   loop_running, net_pc, in_map, sock_client, m_connected,
                   m_packet_queue, m_connection_timer, m_acks, m_ack_timers, ack_timer,
                   s_global_event_id, usr_pc, em_pc, em_id, em_pkt, em_local, awaiter,
                   wire, reconnect_log, close_log, fail_log, ack_calls, timeout_calls,
                   delay_out, user_closed, sock_created, close_called, chat,
                   m_event_binding, ev, lk_pc, lk_owner, sock_map, sock_next, sock_ret,
                   event_calls, ack_recv, id_log, enc_out, m_partial_packet, decoded,
                   fed, socket_listener_calls, ping_expired_on, traffic, metrics,
                   ns_close_sent, state_notified, run_timers, dropped, transports_left,
                   n_connects, n_emits, n_inbound, n_closes>>

\* timeout_reconnect's test of the state
reconnect_allowed == m_con_state = con_closed

\* client_impl::timeout_reconnect with no error code: the load of m_con_state
timeout_reconnect_load ==
    /\ NetIdle /\ PostedFirst /\ timer_q.reconn > 0
    /\ timer_q' = [timer_q EXCEPT !.reconn = @ - 1]
    /\ net_pc' = IF reconnect_allowed THEN "tr_store" ELSE "idle"
    /\ UNCHANGED <<m_con_state, m_con, m_abort_retries, m_reconn_made,
                   m_reconn_attempts, m_reconn_delay, m_reconn_delay_max,
                   m_reconn_timer, m_ping_timeout_timer, m_has_pending_reason,
                   m_pending_disconnect_reason, m_sid, m_ping_interval, m_ping_timeout,
                   m_network_thread, transport, local_close_code, io_queue,
                   loop_running, in_map, sock_client, m_connected, m_packet_queue,
                   m_connection_timer, m_acks, m_ack_timers, ack_timer,
                   s_global_event_id, usr_pc, em_pc, em_id, em_pkt, em_local, awaiter,
                   wire, reconnect_log, close_log, fail_log, ack_calls, timeout_calls,
                   delay_out, user_closed, sock_created, close_called, chat,
                   m_event_binding, ev, lk_pc, lk_owner, sock_map, sock_next, sock_ret,
                   event_calls, ack_recv, id_log, enc_out, m_partial_packet, decoded,
                   fed, socket_listener_calls, ping_expired_on, traffic, metrics,
                   ns_close_sent, state_notified, run_timers, dropped, transports_left,
                   n_connects, n_emits, n_inbound, n_closes>>

\* client_impl::timeout_reconnect: the store of con_opening and what follows;
\* connect_impl is dispatched inline
timeout_reconnect_store ==
    /\ loop_running /\ net_pc = "tr_store"
    /\ net_pc' = "idle"
    /\ m_con_state' = con_opening
    /\ state_notified' = notify_state_change("reconnecting")
    /\ m_reconn_made' = m_reconn_made + 1
    /\ m_sid' = ""
    /\ connect_impl_effect
    /\ UNCHANGED <<m_con, m_abort_retries, m_reconn_attempts, m_reconn_delay,
                   m_reconn_delay_max, m_reconn_timer, m_ping_timeout_timer,
                   m_has_pending_reason, m_pending_disconnect_reason, m_ping_interval,
                   m_ping_timeout, m_network_thread, local_close_code, io_queue,
                   timer_q, loop_running, in_map, sock_client, m_connected,
                   m_packet_queue, m_connection_timer, m_acks, m_ack_timers, ack_timer,
                   s_global_event_id, usr_pc, em_pc, em_id, em_pkt, em_local, awaiter,
                   wire, reconnect_log, close_log, ack_calls, timeout_calls, delay_out,
                   user_closed, sock_created, close_called, chat, m_event_binding, ev,
                   lk_pc, lk_owner, sock_map, sock_next, sock_ret, event_calls,
                   ack_recv, id_log, enc_out, m_partial_packet, decoded, fed,
                   socket_listener_calls, ping_expired_on, traffic, metrics,
                   ns_close_sent, run_timers, dropped, n_connects, n_emits, n_inbound,
                   n_closes>>

(* ======================================================================= *)
(* socket::impl, network-thread side                                       *)
(* ======================================================================= *)
\* socket::impl::on_close (NULL_GUARD(m_client) passed): timer cancelled,
\* queue discarded, m_client cleared, socket removed from the engine's map
socket_on_close ==
    /\ on_socket_closed
    /\ m_connection_timer' = "null"
    /\ timer_q' = cancel_connection_timer(timer_q)
    /\ m_connected' = FALSE
    /\ m_packet_queue' = <<>>
    /\ sock_client' = FALSE
    /\ in_map' = FALSE

\* client_impl::on_decode for an inbound CONNECT of the namespace, then
\* socket::impl::on_connected up to the store of m_connected
on_connect_response(withSid) ==
    /\ NetIdle /\ transport = "open" /\ n_inbound < MaxInbound
    /\ n_inbound' = n_inbound + 1
    /\ m_sid' = IF withSid THEN "nsp_sid" ELSE m_sid
    /\ count_received(IF in_map /\ sock_client THEN 1 ELSE 0)
    /\ IF in_map /\ sock_client
       THEN /\ m_connection_timer' = "null"
            /\ timer_q' = cancel_connection_timer(timer_q)
            /\ m_connected' = TRUE
            /\ socket_listener_calls' = IF m_connected THEN socket_listener_calls
                                        ELSE on_socket_opened
            /\ net_pc' = IF m_connected THEN "idle" ELSE "oc_flush"
       ELSE UNCHANGED <<m_connection_timer, timer_q, m_connected, net_pc,
                        socket_listener_calls>>
    /\ UNCHANGED <<m_con_state, m_con, m_abort_retries, m_reconn_made,
                   m_reconn_attempts, m_reconn_delay, m_reconn_delay_max,
                   m_reconn_timer, m_ping_timeout_timer, m_has_pending_reason,
                   m_pending_disconnect_reason, m_ping_interval, m_ping_timeout,
                   m_network_thread, transport, local_close_code, io_queue,
                   loop_running, in_map, sock_client, m_packet_queue, m_acks,
                   m_ack_timers, ack_timer, s_global_event_id, usr_pc, em_pc, em_id,
                   em_pkt, em_local, awaiter, wire, reconnect_log, close_log, fail_log,
                   ack_calls, timeout_calls, delay_out, user_closed, sock_created,
                   close_called, chat, m_event_binding, ev, lk_pc, lk_owner, sock_map,
                   sock_next, sock_ret, event_calls, ack_recv, id_log, enc_out,
                   m_partial_packet, decoded, fed, ping_expired_on, ns_close_sent,
                   state_notified, run_timers, dropped, transports_left, n_connects,
                   n_emits, n_closes>>

\* socket::impl::on_connected: the queue is taken under m_packet_mutex and
\* each packet is handed to client_impl::send
on_connected_flush ==
    /\ loop_running /\ net_pc = "oc_flush"
    /\ net_pc' = "idle"
    /\ wire' = send_all(wire, m_con_state, transport, m_packet_queue)
    /\ count_sent(Len(m_packet_queue), FALSE)
    /\ m_packet_queue' = <<>>
    /\ UNCHANGED <<m_con_state, m_con, m_abort_retries, m_reconn_made,
                   m_reconn_attempts, m_reconn_delay, m_reconn_delay_max,
                   m_reconn_timer, m_ping_timeout_timer, m_has_pending_reason,
                   m_pending_disconnect_reason, m_sid, m_ping_interval, m_ping_timeout,
                   m_network_thread, transport, local_close_code, io_queue, timer_q,
                   loop_running, in_map, sock_client, m_connected, m_connection_timer,
                   m_acks, m_ack_timers, ack_timer, s_global_event_id, usr_pc, em_pc,
                   em_id, em_pkt, em_local, awaiter, reconnect_log, close_log,
                   fail_log, ack_calls, timeout_calls, delay_out, user_closed,
                   sock_created, close_called, chat, m_event_binding, ev, lk_pc,
                   lk_owner, sock_map, sock_next, sock_ret, event_calls, ack_recv,
                   id_log, enc_out, m_partial_packet, decoded, fed,
                   socket_listener_calls, ping_expired_on, ns_close_sent,
                   state_notified, run_timers, dropped, transports_left, n_connects,
                   n_emits, n_inbound, n_closes>>

\* an inbound DISCONNECT of the namespace: socket::impl::on_close
on_disconnect_packet ==
    /\ NetIdle /\ transport = "open" /\ n_inbound < MaxInbound
    /\ in_map /\ sock_client
    /\ n_inbound' = n_inbound + 1
    /\ count_received(1)
    /\ socket_on_close
    /\ UNCHANGED <<m_con_state, m_con, m_abort_retries, m_reconn_made,
                   m_reconn_attempts, m_reconn_delay, m_reconn_delay_max,
                   m_reconn_timer, m_ping_timeout_timer, m_has_pending_reason,
                   m_pending_disconnect_reason, m_sid, m_ping_interval, m_ping_timeout,
                   m_network_thread, transport, local_close_code, io_queue,
                   loop_running, net_pc, m_acks, m_ack_timers, ack_timer,
                   s_global_event_id, usr_pc, em_pc, em_id, em_pkt, em_local, awaiter,
                   wire, reconnect_log, close_log, fail_log, ack_calls, timeout_calls,
                   delay_out, user_closed, sock_created, close_called, chat,
                   m_event_binding, ev, lk_pc, lk_owner, sock_map, sock_next, sock_ret,
                   event_calls, ack_recv, id_log, enc_out, m_partial_packet, decoded,
                   fed, ping_expired_on, ns_close_sent, state_notified, run_timers,
                   dropped, transports_left, n_connects, n_emits, n_closes>>

\* the 20 s connect wait completes
connection_timer_expire ==
    /\ loop_running /\ m_connection_timer = "connect" /\ timer_q.conn = 0
    /\ m_connection_timer' = "idle"
    /\ timer_q' = [timer_q EXCEPT !.conn = 1]
    /\ UNCHANGED <<m_con_state, m_con, m_abort_retries, m_reconn_made,
                   m_reconn_attempts, m_reconn_delay, m_reconn_delay_max,
                   m_reconn_timer, m_ping_timeout_timer, m_has_pending_reason,
                   m_pending_disconnect_reason, m_sid, m_ping_interval, m_ping_timeout,
                   m_network_thread, transport, local_close_code, io_queue,
                   loop_running, net_pc, in_map, sock_client, m_connected,
                   m_packet_queue, m_acks, m_ack_timers, ack_timer, s_global_event_id,
                   usr_pc, em_pc, em_id, em_pkt, em_local, awaiter, wire,
                   reconnect_log, close_log, fail_log, ack_calls, timeout_calls,
                   delay_out, user_closed, sock_created, close_called, chat,
                   m_event_binding, ev, lk_pc, lk_owner, sock_map, sock_next, sock_ret,
                   event_calls, ack_recv, id_log, enc_out, m_partial_packet, decoded,
                   fed, socket_listener_calls, ping_expired_on, traffic, metrics,
                   ns_close_sent, state_notified, run_timers, dropped, transports_left,
                   n_connects, n_emits, n_inbound, n_closes>>

\* socket::impl::timeout_connection with no error code
timeout_connection ==
    /\ NetIdle /\ timer_q.conn > 0
    /\ IF sock_client
       THEN /\ m_connection_timer' = "null"
            /\ timer_q' = [cancel_connection_timer(timer_q) EXCEPT !.conn = @ - 1]
            /\ m_connected' = FALSE
            /\ m_packet_queue' = <<>>
            /\ sock_client' = FALSE
            /\ on_socket_closed
            /\ in_map' = FALSE
       ELSE /\ timer_q' = [timer_q EXCEPT !.conn = @ - 1]
            /\ UNCHANGED <<m_connection_timer, m_connected, m_packet_queue,
                           sock_client, in_map, socket_listener_calls>>
    /\ UNCHANGED <<m_con_state, m_con, m_abort_retries, m_reconn_made,
                   m_reconn_attempts, m_reconn_delay, m_reconn_delay_max,
                   m_reconn_timer, m_ping_timeout_timer, m_has_pending_reason,
                   m_pending_disconnect_reason, m_sid, m_ping_interval, m_ping_timeout,
                   m_network_thread, transport, local_close_code, io_queue,
                   loop_running, net_pc, m_acks, m_ack_timers, ack_timer,
                   s_global_event_id, usr_pc, em_pc, em_id, em_pkt, em_local, awaiter,
                   wire, reconnect_log, close_log, fail_log, ack_calls, timeout_calls,
                   delay_out, user_closed, sock_created, close_called, chat,
                   m_event_binding, ev, lk_pc, lk_owner, sock_map, sock_next, sock_ret,
                   event_calls, ack_recv, id_log, enc_out, m_partial_packet, decoded,
                   fed, ping_expired_on, traffic, metrics, ns_close_sent,
                   state_notified, run_timers, dropped, transports_left, n_connects,
                   n_emits, n_inbound, n_closes>>

\* the 3 s close-grace wait completes
grace_timer_expire ==
    /\ loop_running /\ m_connection_timer = "grace"
    /\ m_connection_timer' = "idle"
    /\ timer_q' = [timer_q EXCEPT !.grace = @ + 1]
    /\ UNCHANGED <<m_con_state, m_con, m_abort_retries, m_reconn_made,
                   m_reconn_attempts, m_reconn_delay, m_reconn_delay_max,
                   m_reconn_timer, m_ping_timeout_timer, m_has_pending_reason,
                   m_pending_disconnect_reason, m_sid, m_ping_interval, m_ping_timeout,
                   m_network_thread, transport, local_close_code, io_queue,
                   loop_running, net_pc, in_map, sock_client, m_connected,
                   m_packet_queue, m_acks, m_ack_timers, ack_timer, s_global_event_id,
                   usr_pc, em_pc, em_id, em_pkt, em_local, awaiter, wire,
                   reconnect_log, close_log, fail_log, ack_calls, timeout_calls,
                   delay_out, user_closed, sock_created, close_called, chat,
                   m_event_binding, ev, lk_pc, lk_owner, sock_map, sock_next, sock_ret,
                   event_calls, ack_recv, id_log, enc_out, m_partial_packet, decoded,
                   fed, socket_listener_calls, ping_expired_on, traffic, metrics,
                   ns_close_sent, state_notified, run_timers, dropped, transports_left,
                   n_connects, n_emits, n_inbound, n_closes>>

\* the close-grace handler of socket::impl::close: on_close(), whatever the
\* error code; aborted: the handler runs because the wait was cancelled
grace_handler_run(aborted) ==
    /\ NetIdle /\ timer_q.grace > 0
    /\ IF aborted THEN timer_q.aborted > 0 ELSE timer_q.grace > timer_q.aborted
    /\ LET tq == [timer_q EXCEPT !.grace = @ - 1,
                                 !.aborted = IF aborted THEN @ - 1 ELSE @]
       IN  IF sock_client
           THEN /\ m_connection_timer' = "null"
                /\ timer_q' = cancel_connection_timer(tq)
                /\ m_connected' = FALSE
                /\ m_packet_queue' = <<>>
                /\ sock_client' = FALSE
                /\ on_socket_closed
                /\ in_map' = FALSE
           ELSE /\ timer_q' = tq
                /\ UNCHANGED <<m_connection_timer, m_connected, m_packet_queue,
                               sock_client, in_map, socket_listener_calls>>
    /\ UNCHANGED <<m_con_state, m_con, m_abort_retries, m_reconn_made,
                   m_reconn_attempts, m_reconn_delay, m_reconn_delay_max,
                   m_reconn_timer, m_ping_timeout_timer, m_has_pending_reason,
                   m_pending_disconnect_reason, m_sid, m_ping_interval, m_ping_timeout,
                   m_network_thread, transport, local_close_code, io_queue,
                   loop_running, net_pc, m_acks, m_ack_timers, ack_timer,
                   s_global_event_id, usr_pc, em_pc, em_id, em_pkt, em_local, awaiter,
                   wire, reconnect_log, close_log, fail_log, ack_calls, timeout_calls,
                   delay_out, user_closed, sock_created, close_called, chat,
                   m_event_binding, ev, lk_pc, lk_owner, sock_map, sock_next, sock_ret,
                   event_calls, ack_recv, id_log, enc_out, m_partial_packet, decoded,
                   fed, ping_expired_on, traffic, metrics, ns_close_sent,
                   state_notified, run_timers, dropped, transports_left, n_connects,
                   n_emits, n_inbound, n_closes>>

grace_handler == \E aborted \in BOOLEAN : grace_handler_run(aborted)

\* the namespaces that have a socket in client_impl::m_sockets
m_sockets == (IF in_map THEN {"/"} ELSE {}) \cup (IF chat.in_map THEN {"/chat"} ELSE {})

\* client_impl::get_socket_locked: the socket stored under nsp, if any
get_socket_locked(nsp) == IF nsp \in m_sockets THEN nsp ELSE "none"

\* a plausible slip: the listener is looked up in the bindings of every socket
get_bind_listener_any(so, name) ==
    LET fs == {m_event_binding[n][name] : n \in Namespaces} \ {NoListener}
    IN  IF fs = {} THEN NoListener ELSE CHOOSE f \in fs : TRUE

\* socket::impl::get_bind_listener_locked on the socket of namespace so: a
\* copy of the function bound for the name, taken under m_event_mutex
get_bind_listener_locked(so, name) == m_event_binding[so][name]

\* socket::impl::on_socketio_event's test for the ACK reply
needAck(id) == id >= 0

\* the ack ids of inbound EVENT packets: -1 is a packet without an ack id
InboundIds == {-1, 0}

\* client_impl::on_decode for an inbound EVENT packet of namespace nsp with
\* event name `name` and ack id `id`: on_message_packet and
\* on_socketio_event up to the copy of the bound listener
on_event_packet(nsp, name, id) ==
    /\ NetIdle /\ transport = "open" /\ n_inbound < MaxInbound
    /\ n_inbound' = n_inbound + 1
    /\ LET so == get_socket_locked(nsp)
           \* on_message_packet: NULL_GUARD(m_client) and p.get_nsp() == m_nsp
           taken == so # "none" /\ (so = "/" => sock_client) /\ so = nsp
       IN  /\ count_received(IF taken /\ so = "/" THEN 1 ELSE 0)
           /\ IF taken
              THEN /\ ev' = [so |-> so, name |-> name, id |-> id,
                             func |-> get_bind_listener_locked(so, name)]
                   /\ net_pc' = "ev_call"
              ELSE UNCHANGED <<ev, net_pc>>
    /\ UNCHANGED <<m_con_state, m_con, m_abort_retries, m_reconn_made,
                   m_reconn_attempts, m_reconn_delay, m_reconn_delay_max,
                   m_reconn_timer, m_ping_timeout_timer, m_has_pending_reason,
                   m_pending_disconnect_reason, m_sid, m_ping_interval, m_ping_timeout,
                   m_network_thread, transport, local_close_code, io_queue, timer_q,
                   loop_running, in_map, sock_client, m_connected, m_packet_queue,
                   m_connection_timer, m_acks, m_ack_timers, ack_timer,
                   s_global_event_id, usr_pc, em_pc, em_id, em_pkt, em_local, awaiter,
                   wire, reconnect_log, close_log, fail_log, ack_calls, timeout_calls,
                   delay_out, user_closed, sock_created, close_called, chat,
                   m_event_binding, lk_pc, lk_owner, sock_map, sock_next, sock_ret,
                   event_calls, ack_recv, id_log, enc_out, m_partial_packet, decoded,
                   fed, socket_listener_calls, ping_expired_on, ns_close_sent,
                   state_notified, run_timers, dropped, transports_left, n_connects,
                   n_emits, n_closes>>

\* the handlers a user passes to socket::on_with_ack, by the listener id
\* their wrapper is bound under: the list form fills `out` into the ack list,
\* the bool form returns "true" or "false" or throws
WithAckHandlers ==
    (11 :> [form |-> "list", out |-> <<>>, result |-> "none"])
 @@ (12 :> [form |-> "list", out |-> <<"x">>, result |-> "none"])
 @@ (13 :> [form |-> "list", out |-> <<"x", "y">>, result |-> "none"])
 @@ (21 :> [form |-> "bool", out |-> <<>>, result |-> "true"])
 @@ (22 :> [form |-> "bool", out |-> <<>>, result |-> "false"])
 @@ (23 :> [form |-> "bool", out |-> <<>>, result |-> "throws"])

WithAckIds == DOMAIN WithAckHandlers

\* event::put_ack_message on an event whose ack message is cur
put_ack_message(need_ack, cur, ack_message) == IF need_ack THEN ack_message ELSE cur

\* a plausible slip: a handler that throws is reported as a success
adapter_true_on_throw(result) == <<IF result = "false" THEN "false" ELSE "true">>

\* the adapter of socket::on_with_ack's bool form: the result, false when
\* the handler throws, is pushed as the one element of the ack list
adapter(result) == <<IF result = "throws" THEN "false" ELSE result>>

\* the wrapper of socket::on_with_ack called with an event: the handler is
\* always called; the value is the event's ack message afterwards
wrapper(h, need_ack) ==
    LET ack_msg == IF h.form = "bool" THEN adapter(h.result) ELSE h.out
    IN  IF need_ack /\ Len(ack_msg) > 0
        THEN put_ack_message(need_ack, <<>>, ack_msg)
        ELSE <<>>

\* socket::on_with_ack on the handle of namespace "/": the wrapper of
\* handler h is bound by socket::impl::on
socket_on_with_ack(name, h) ==
    /\ usr_pc = "idle" /\ sock_created
    /\ m_event_binding["/"][name] # h
    /\ m_event_binding' = [m_event_binding EXCEPT !["/"][name] = h]
    /\ UNCHANGED <<m_con_state, m_con, m_abort_retries, m_reconn_made,
                   m_reconn_attempts, m_reconn_delay, m_reconn_delay_max,
                   m_reconn_timer, m_ping_timeout_timer, m_has_pending_reason,
                   m_pending_disconnect_reason, m_sid, m_ping_interval, m_ping_timeout,
                   m_network_thread, transport, local_close_code, io_queue, timer_q,
                   loop_running, net_pc, in_map, sock_client, m_connected,
                   m_packet_queue, m_connection_timer, m_acks, m_ack_timers, ack_timer,
                   s_global_event_id, usr_pc, em_pc, em_id, em_pkt, em_local, awaiter,
                   wire, reconnect_log, close_log, fail_log, ack_calls, timeout_calls,
                   delay_out, user_closed, sock_created, close_called, chat, ev, lk_pc,
                   lk_owner, sock_map, sock_next, sock_ret, event_calls, ack_recv,
                   id_log, enc_out, m_partial_packet, decoded, fed,
                   socket_listener_calls, ping_expired_on, traffic, metrics,
                   ns_close_sent, state_notified, run_timers, dropped, transports_left,
                   n_connects, n_emits, n_inbound, n_closes>>

\* a plausible slip: the listener is looked up again when it is called
listener_to_call_current == m_event_binding[ev.so][ev.name]

\* on_socketio_event: if (func) func(ev) on the copy taken before
listener_to_call == ev.func

\* the rest of socket::impl::on_socketio_event: the copied listener is
\* called outside the mutex, then ack -> send_packet on the network
\* thread; populate: the listener puts a non-empty ack message
on_event_invoke(populate) ==
    /\ loop_running /\ net_pc = "ev_call"
    /\ net_pc' = "idle"
    /\ ev' = NoEvent
    /\ LET func == listener_to_call
           ack_message == IF func \in WithAckIds
                          THEN wrapper(WithAckHandlers[func], needAck(ev.id))
                          ELSE IF populate THEN <<"data">> ELSE <<>>
           reply == AckPkt(ev.so, ev.id, ack_message)
       IN  /\ populate => (func # NoListener /\ func \notin WithAckIds /\ needAck(ev.id))
           /\ event_calls' = IF func # NoListener
                              THEN Append(event_calls,
                                          [nsp |-> ev.so, name |-> ev.name, f |-> func])
                              ELSE event_calls
           /\ IF needAck(ev.id) /\ ev.so = "/"
              THEN \* NULL_GUARD(m_client) in send_packet
                   IF ~sock_client
                   THEN UNCHANGED <<wire, m_packet_queue, metrics, traffic>>
                   ELSE IF m_connected
                   THEN /\ wire' = send_all(wire, m_con_state, transport,
                                            Append(m_packet_queue, reply))
                        /\ count_sent(Len(m_packet_queue) + 1, TRUE)
                        /\ m_packet_queue' = <<>>
                   ELSE /\ m_packet_queue' = Append(m_packet_queue, reply)
                        /\ UNCHANGED <<wire, metrics, traffic>>
              ELSE UNCHANGED <<wire, m_packet_queue, metrics, traffic>>
           /\ chat' = IF needAck(ev.id) /\ ev.so = "/chat"
                      THEN [chat EXCEPT !.m_packet_queue = Append(@, reply)]
                      ELSE chat
    /\ UNCHANGED <<m_con_state, m_con, m_abort_retries, m_reconn_made,
                   m_reconn_attempts, m_reconn_delay, m_reconn_delay_max,
                   m_reconn_timer, m_ping_timeout_timer, m_has_pending_reason,
                   m_pending_disconnect_reason, m_sid, m_ping_interval, m_ping_timeout,
                   m_network_thread, transport, local_close_code, io_queue, timer_q,
                   loop_running, in_map, sock_client, m_connected, m_connection_timer,
                   m_acks, m_ack_timers, ack_timer, s_global_event_id, usr_pc, em_pc,
                   em_id, em_pkt, em_local, awaiter, reconnect_log, close_log,
                   fail_log, ack_calls, timeout_calls, delay_out, user_closed,
                   sock_created, close_called, m_event_binding, lk_pc, lk_owner,
                   sock_map, sock_next, sock_ret, ack_recv, id_log, enc_out,
                   m_partial_packet, decoded, fed, socket_listener_calls,
                   ping_expired_on, ns_close_sent, state_notified, run_timers, dropped,
                   transports_left, n_connects, n_emits, n_inbound, n_closes>>

(* ======================================================================= *)
(* socket::close on a user thread                                          *)
(* ======================================================================= *)
\* socket::impl::close called on the handle: it acts only when m_connected,
\* then DISCONNECT is sent and the 3 s close-grace timer is armed
socket_close_call ==
    /\ usr_pc = "idle" /\ em_pc = "idle" /\ sock_created /\ ~close_called
    /\ close_called' = TRUE
    /\ LET r == socket_close(FALSE, m_con_state, transport, wire, io_queue, timer_q)
       IN  /\ m_packet_queue' = r.queue
           /\ m_connection_timer' = r.timer
           /\ timer_q' = r.tq
           /\ io_queue' = r.ioq
           /\ ns_close_sent' = r.sent
           /\ count_sent(r.sends, TRUE)
    /\ UNCHANGED <<m_con_state, m_con, m_abort_retries, m_reconn_made,
                   m_reconn_attempts, m_reconn_delay, m_reconn_delay_max,
                   m_reconn_timer, m_ping_timeout_timer, m_has_pending_reason,
                   m_pending_disconnect_reason, m_sid, m_ping_interval, m_ping_timeout,
                   m_network_thread, transport, local_close_code, loop_running, net_pc,
                   in_map, sock_client, m_connected, m_acks, m_ack_timers, ack_timer,
                   s_global_event_id, usr_pc, em_pc, em_id, em_pkt, em_local, awaiter,
                   wire, reconnect_log, close_log, fail_log, ack_calls, timeout_calls,
                   delay_out, user_closed, sock_created, chat, m_event_binding, ev,
                   lk_pc, lk_owner, sock_map, sock_next, sock_ret, event_calls,
                   ack_recv, id_log, enc_out, m_partial_packet, decoded, fed,
                   socket_listener_calls, ping_expired_on, state_notified, run_timers,
                   dropped, transports_left, n_connects, n_emits, n_inbound, n_closes>>

(* ======================================================================= *)
(* socket::impl::emit on the emitting user thread                          *)
(* ======================================================================= *)
\* socket::impl::emit without ack: pack_id = -1, then send_packet
emit_plain ==
    /\ em_pc = "idle" /\ sock_created /\ n_emits < MaxEmits
    /\ n_emits' = n_emits + 1
    /\ em_id' = -1
    /\ em_pkt' = IF sock_client THEN n_emits + 1 ELSE em_pkt
    /\ em_pc' = IF sock_client THEN "sp_check" ELSE "idle"
    /\ UNCHANGED <<m_con_state, m_con, m_abort_retries, m_reconn_made,
                   m_reconn_attempts, m_reconn_delay, m_reconn_delay_max,
                   m_reconn_timer, m_ping_timeout_timer, m_has_pending_reason,
                   m_pending_disconnect_reason, m_sid, m_ping_interval, m_ping_timeout,
                   m_network_thread, transport, local_close_code, io_queue, timer_q,
                   loop_running, net_pc, in_map, sock_client, m_connected,
                   m_packet_queue, m_connection_timer, m_acks, m_ack_timers, ack_timer,
                   s_global_event_id, usr_pc, em_local, awaiter, wire, reconnect_log,
                   close_log, fail_log, ack_calls, timeout_calls, delay_out,
                   user_closed, sock_created, close_called, chat, m_event_binding, ev,
                   lk_pc, lk_owner, sock_map, sock_next, sock_ret, event_calls,
                   ack_recv, id_log, enc_out, m_partial_packet, decoded, fed,
                   socket_listener_calls, ping_expired_on, traffic, metrics,
                   ns_close_sent, state_notified, run_timers, dropped, transports_left,
                   n_connects, n_inbound, n_closes>>

\* socket::impl::emit, timeout overload: the id is drawn and the timer is
\* armed (async_wait) before the ack entry is stored
emit_arm ==
    /\ em_pc = "idle" /\ sock_created /\ n_emits < MaxEmits
    /\ n_emits' = n_emits + 1
    /\ IF sock_client
       THEN /\ em_id' = s_global_event_id
            /\ s_global_event_id' = fetch_add(s_global_event_id)
            /\ ack_timer' = [ack_timer EXCEPT ![s_global_event_id] = "pending"]
            /\ em_pkt' = n_emits + 1
            /\ em_pc' = "store"
       ELSE UNCHANGED <<em_id, s_global_event_id, ack_timer, em_pkt, em_pc>>
    /\ UNCHANGED <<m_con_state, m_con, m_abort_retries, m_reconn_made,
                   m_reconn_attempts, m_reconn_delay, m_reconn_delay_max,
                   m_reconn_timer, m_ping_timeout_timer, m_has_pending_reason,
                   m_pending_disconnect_reason, m_sid, m_ping_interval, m_ping_timeout,
                   m_network_thread, transport, local_close_code, io_queue, timer_q,
                   loop_running, net_pc, in_map, sock_client, m_connected,
                   m_packet_queue, m_connection_timer, m_acks, m_ack_timers, usr_pc,
                   em_local, awaiter, wire, reconnect_log, close_log, fail_log,
                   ack_calls, timeout_calls, delay_out, user_closed, sock_created,
                   close_called, chat, m_event_binding, ev, lk_pc, lk_owner, sock_map,
                   sock_next, sock_ret, event_calls, ack_recv, id_log, enc_out,
                   m_partial_packet, decoded, fed, socket_listener_calls,
                   ping_expired_on, traffic, metrics, ns_close_sent, state_notified,
                   run_timers, dropped, transports_left, n_connects, n_inbound,
                   n_closes>>

\* socket::emit_async, timeout overload: an emit_awaiter is made, its
\* set_result and set_exception are the callbacks of socket::impl::emit
emit_async_call ==
    /\ em_pc = "idle" /\ sock_created /\ n_emits < MaxEmits /\ awaiter = NoAwaiter
    /\ n_emits' = n_emits + 1
    /\ IF sock_client
       THEN /\ em_id' = s_global_event_id
            /\ s_global_event_id' = fetch_add(s_global_event_id)
            /\ ack_timer' = [ack_timer EXCEPT ![s_global_event_id] = "pending"]
            /\ em_pkt' = n_emits + 1
            /\ em_pc' = "store"
            /\ awaiter' = [NoAwaiter EXCEPT !.id = s_global_event_id]
       ELSE UNCHANGED <<em_id, s_global_event_id, ack_timer, em_pkt, em_pc, awaiter>>
    /\ UNCHANGED <<m_con_state, m_con, m_abort_retries, m_reconn_made,
                   m_reconn_attempts, m_reconn_delay, m_reconn_delay_max,
                   m_reconn_timer, m_ping_timeout_timer, m_has_pending_reason,
                   m_pending_disconnect_reason, m_sid, m_ping_interval, m_ping_timeout,
                   m_network_thread, transport, local_close_code, io_queue, timer_q,
                   loop_running, net_pc, in_map, sock_client, m_connected,
                   m_packet_queue, m_connection_timer, m_acks, m_ack_timers, usr_pc,
                   em_local, wire, reconnect_log, close_log, fail_log, ack_calls,
                   timeout_calls, delay_out, user_closed, sock_created, close_called,
                   chat, m_event_binding, ev, lk_pc, lk_owner, sock_map, sock_next,
                   sock_ret, event_calls, ack_recv, id_log, enc_out, m_partial_packet,
                   decoded, fed, socket_listener_calls, ping_expired_on, traffic,
                   metrics, ns_close_sent, state_notified, run_timers, dropped,
                   transports_left, n_connects, n_inbound, n_closes>>

\* emit returns to its caller: emit_async goes on to co_await *awaiter
emit_return == IF em_id = awaiter.id THEN "await" ELSE "idle"

\* co_await *awaiter: await_ready is false, await_suspend stores the handle
await_suspend ==
    /\ em_pc = "await"
    /\ awaiter' = [awaiter EXCEPT !.continuation = TRUE]
    /\ em_pc' = "idle"
    /\ UNCHANGED <<m_con_state, m_con, m_abort_retries, m_reconn_made,
                   m_reconn_attempts, m_reconn_delay, m_reconn_delay_max,
                   m_reconn_timer, m_ping_timeout_timer, m_has_pending_reason,
                   m_pending_disconnect_reason, m_sid, m_ping_interval, m_ping_timeout,
                   m_network_thread, transport, local_close_code, io_queue, timer_q,
                   loop_running, net_pc, in_map, sock_client, m_connected,
                   m_packet_queue, m_connection_timer, m_acks, m_ack_timers, ack_timer,
                   s_global_event_id, usr_pc, em_id, em_pkt, em_local, wire,
                   reconnect_log, close_log, fail_log, ack_calls, timeout_calls,
                   delay_out, user_closed, sock_created, close_called, chat,
                   m_event_binding, ev, lk_pc, lk_owner, sock_map, sock_next, sock_ret,
                   event_calls, ack_recv, id_log, enc_out, m_partial_packet, decoded,
                   fed, socket_listener_calls, ping_expired_on, traffic, metrics,
                   ns_close_sent, state_notified, run_timers, dropped, transports_left,
                   n_connects, n_emits, n_inbound, n_closes>>

\* emit_awaiter::set_result and set_exception: the outcome is stored and
\* the coroutine is resumed if (continuation_)
awaiter_set(aw, outcome) ==
    [aw EXCEPT !.result = outcome, !.resumed = aw.continuation]

\* m_ack_timers[pack_id] = timer
ack_timers_after_store == m_ack_timers \cup {em_id}

\* socket::impl::emit, timeout overload: m_acks and m_ack_timers are stored
\* under m_event_mutex
emit_store ==
    /\ em_pc = "store"
    /\ m_acks' = m_acks \cup {em_id}
    /\ m_ack_timers' = ack_timers_after_store
    /\ em_pc' = "sp_check"
    /\ UNCHANGED <<m_con_state, m_con, m_abort_retries, m_reconn_made,
                   m_reconn_attempts, m_reconn_delay, m_reconn_delay_max,
                   m_reconn_timer, m_ping_timeout_timer, m_has_pending_reason,
                   m_pending_disconnect_reason, m_sid, m_ping_interval, m_ping_timeout,
                   m_network_thread, transport, local_close_code, io_queue, timer_q,
                   loop_running, net_pc, in_map, sock_client, m_connected,
                   m_packet_queue, m_connection_timer, ack_timer, s_global_event_id,
                   usr_pc, em_id, em_pkt, em_local, awaiter, wire, reconnect_log,
                   close_log, fail_log, ack_calls, timeout_calls, delay_out,
                   user_closed, sock_created, close_called, chat, m_event_binding, ev,
                   lk_pc, lk_owner, sock_map, sock_next, sock_ret, event_calls,
                   ack_recv, id_log, enc_out, m_partial_packet, decoded, fed,
                   socket_listener_calls, ping_expired_on, traffic, metrics,
                   ns_close_sent, state_notified, run_timers, dropped, transports_left,
                   n_connects, n_emits, n_inbound, n_closes>>

\* socket::impl::send_packet: NULL_GUARD and the read of m_connected
send_packet_check ==
    /\ em_pc = "sp_check"
    /\ em_pc' = IF ~sock_client THEN emit_return
                ELSE IF m_connected THEN "sp_drain" ELSE "sp_push"
    /\ UNCHANGED <<m_con_state, m_con, m_abort_retries, m_reconn_made,
                   m_reconn_attempts, m_reconn_delay, m_reconn_delay_max,
                   m_reconn_timer, m_ping_timeout_timer, m_has_pending_reason,
                   m_pending_disconnect_reason, m_sid, m_ping_interval, m_ping_timeout,
                   m_network_thread, transport, local_close_code, io_queue, timer_q,
                   loop_running, net_pc, in_map, sock_client, m_connected,
                   m_packet_queue, m_connection_timer, m_acks, m_ack_timers, ack_timer,
                   s_global_event_id, usr_pc, em_id, em_pkt, em_local, awaiter, wire,
                   reconnect_log, close_log, fail_log, ack_calls, timeout_calls,
                   delay_out, user_closed, sock_created, close_called, chat,
                   m_event_binding, ev, lk_pc, lk_owner, sock_map, sock_next, sock_ret,
                   event_calls, ack_recv, id_log, enc_out, m_partial_packet, decoded,
                   fed, socket_listener_calls, ping_expired_on, traffic, metrics,
                   ns_close_sent, state_notified, run_timers, dropped, transports_left,
                   n_connects, n_emits, n_inbound, n_closes>>

\* send_packet, connected branch: the queue is taken under m_packet_mutex
send_packet_drain ==
    /\ em_pc = "sp_drain"
    /\ em_local' = m_packet_queue
    /\ m_packet_queue' = <<>>
    /\ em_pc' = "sp_send"
    /\ UNCHANGED <<m_con_state, m_con, m_abort_retries, m_reconn_made,
                   m_reconn_attempts, m_reconn_delay, m_reconn_delay_max,
                   m_reconn_timer, m_ping_timeout_timer, m_has_pending_reason,
                   m_pending_disconnect_reason, m_sid, m_ping_interval, m_ping_timeout,
                   m_network_thread, transport, local_close_code, io_queue, timer_q,
                   loop_running, net_pc, in_map, sock_client, m_connected,
                   m_connection_timer, m_acks, m_ack_timers, ack_timer,
                   s_global_event_id, usr_pc, em_id, em_pkt, awaiter, wire,
                   reconnect_log, close_log, fail_log, ack_calls, timeout_calls,
                   delay_out, user_closed, sock_created, close_called, chat,
                   m_event_binding, ev, lk_pc, lk_owner, sock_map, sock_next, sock_ret,
                   event_calls, ack_recv, id_log, enc_out, m_partial_packet, decoded,
                   fed, socket_listener_calls, ping_expired_on, traffic, metrics,
                   ns_close_sent, state_notified, run_timers, dropped, transports_left,
                   n_connects, n_emits, n_inbound, n_closes>>

\* send_packet, connected branch: queued packets first, then the new one
send_order(queued, p) == Append(queued, p)

\* send_packet, connected branch: m_client->send for each; on a user thread
\* on_encode posts send_impl.  m_client may have been cleared by on_close
\* since the NULL_GUARD: the call through a null pointer ends the thread.
send_packet_send ==
    /\ em_pc = "sp_send"
    /\ em_local' = <<>>
    /\ IF sock_client
       THEN /\ io_queue' = post_all(io_queue, send_order(em_local, EventPkt(em_pkt)))
            /\ count_sent(Len(em_local) + 1, TRUE)
            /\ em_pc' = emit_return
       ELSE /\ UNCHANGED <<io_queue, metrics, traffic>>
            /\ em_pc' = "crashed"
    /\ UNCHANGED <<m_con_state, m_con, m_abort_retries, m_reconn_made,
                   m_reconn_attempts, m_reconn_delay, m_reconn_delay_max,
                   m_reconn_timer, m_ping_timeout_timer, m_has_pending_reason,
                   m_pending_disconnect_reason, m_sid, m_ping_interval, m_ping_timeout,
                   m_network_thread, transport, local_close_code, timer_q,
                   loop_running, net_pc, in_map, sock_client, m_connected,
                   m_packet_queue, m_connection_timer, m_acks, m_ack_timers, ack_timer,
                   s_global_event_id, usr_pc, em_id, em_pkt, awaiter, wire,
                   reconnect_log, close_log, fail_log, ack_calls, timeout_calls,
                   delay_out, user_closed, sock_created, close_called, chat,
                   m_event_binding, ev, lk_pc, lk_owner, sock_map, sock_next, sock_ret,
                   event_calls, ack_recv, id_log, enc_out, m_partial_packet, decoded,
                   fed, socket_listener_calls, ping_expired_on, ns_close_sent,
                   state_notified, run_timers, dropped, transports_left, n_connects,
                   n_emits, n_inbound, n_closes>>

\* send_packet, not connected: the packet is appended to the pre-connect queue
send_packet_push ==
    /\ em_pc = "sp_push"
    /\ m_packet_queue' = Append(m_packet_queue, EventPkt(em_pkt))
    /\ em_pc' = emit_return
    /\ UNCHANGED <<m_con_state, m_con, m_abort_retries, m_reconn_made,
                   m_reconn_attempts, m_reconn_delay, m_reconn_delay_max,
                   m_reconn_timer, m_ping_timeout_timer, m_has_pending_reason,
                   m_pending_disconnect_reason, m_sid, m_ping_interval, m_ping_timeout,
                   m_network_thread, transport, local_close_code, io_queue, timer_q,
                   loop_running, net_pc, in_map, sock_client, m_connected,
                   m_connection_timer, m_acks, m_ack_timers, ack_timer,
                   s_global_event_id, usr_pc, em_id, em_pkt, em_local, awaiter, wire,
                   reconnect_log, close_log, fail_log, ack_calls, timeout_calls,
                   delay_out, user_closed, sock_created, close_called, chat,
                   m_event_binding, ev, lk_pc, lk_owner, sock_map, sock_next, sock_ret,
                   event_calls, ack_recv, id_log, enc_out, m_partial_packet, decoded,
                   fed, socket_listener_calls, ping_expired_on, traffic, metrics,
                   ns_close_sent, state_notified, run_timers, dropped, transports_left,
                   n_connects, n_emits, n_inbound, n_closes>>

(* ======================================================================= *)
(* acknowledgments                                                         *)
(* ======================================================================= *)
\* a plausible slip: the callback is called for every inbound ACK
ack_cb_due_always(i) == TRUE

\* on_socketio_ack: if (l) l(message), l being the entry found in m_acks
ack_cb_due(i) == i \in m_acks

\* socket::impl::on_socketio_ack for an inbound ACK with id i
on_socketio_ack(i) ==
    /\ NetIdle /\ transport = "open" /\ n_inbound < MaxInbound
    /\ in_map /\ sock_client
    /\ n_inbound' = n_inbound + 1
    /\ count_received(1)
    /\ m_acks' = m_acks \ {i}
    /\ m_ack_timers' = m_ack_timers \ {i}
    \* timer->cancel(): a wait that already completed is not affected
    /\ ack_timer' = IF i \in m_ack_timers /\ ack_timer[i] = "pending"
                    THEN [ack_timer EXCEPT ![i] = "cancelled"] ELSE ack_timer
    /\ ack_calls' = IF ack_cb_due(i) THEN [ack_calls EXCEPT ![i] = @ + 1] ELSE ack_calls
    /\ ack_recv' = [ack_recv EXCEPT ![i] = @ + 1]
    /\ awaiter' = IF ack_cb_due(i) /\ i = awaiter.id
                  THEN awaiter_set(awaiter, "ack") ELSE awaiter
    /\ UNCHANGED <<m_con_state, m_con, m_abort_retries, m_reconn_made,
                   m_reconn_attempts, m_reconn_delay, m_reconn_delay_max,
                   m_reconn_timer, m_ping_timeout_timer, m_has_pending_reason,
                   m_pending_disconnect_reason, m_sid, m_ping_interval, m_ping_timeout,
                   m_network_thread, transport, local_close_code, io_queue, timer_q,
                   loop_running, net_pc, in_map, sock_client, m_connected,
                   m_packet_queue, m_connection_timer, s_global_event_id, usr_pc,
                   em_pc, em_id, em_pkt, em_local, wire, reconnect_log, close_log,
                   fail_log, timeout_calls, delay_out, user_closed, sock_created,
                   close_called, chat, m_event_binding, ev, lk_pc, lk_owner, sock_map,
                   sock_next, sock_ret, event_calls, id_log, enc_out, m_partial_packet,
                   decoded, fed, socket_listener_calls, ping_expired_on, ns_close_sent,
                   state_notified, run_timers, dropped, transports_left, n_connects,
                   n_emits, n_closes>>

\* the ack timeout of id i elapses
ack_timer_expire(i) ==
    /\ loop_running /\ ack_timer[i] = "pending"
    /\ ack_timer' = [ack_timer EXCEPT ![i] = "fired"]
    /\ UNCHANGED <<m_con_state, m_con, m_abort_retries, m_reconn_made,
                   m_reconn_attempts, m_reconn_delay, m_reconn_delay_max,
                   m_reconn_timer, m_ping_timeout_timer, m_has_pending_reason,
                   m_pending_disconnect_reason, m_sid, m_ping_interval, m_ping_timeout,
                   m_network_thread, transport, local_close_code, io_queue, timer_q,
                   loop_running, net_pc, in_map, sock_client, m_connected,
                   m_packet_queue, m_connection_timer, m_acks, m_ack_timers,
                   s_global_event_id, usr_pc, em_pc, em_id, em_pkt, em_local, awaiter,
                   wire, reconnect_log, close_log, fail_log, ack_calls, timeout_calls,
                   delay_out, user_closed, sock_created, close_called, chat,
                   m_event_binding, ev, lk_pc, lk_owner, sock_map, sock_next, sock_ret,
                   event_calls, ack_recv, id_log, enc_out, m_partial_packet, decoded,
                   fed, socket_listener_calls, ping_expired_on, traffic, metrics,
                   ns_close_sent, state_notified, run_timers, dropped, transports_left,
                   n_connects, n_emits, n_inbound, n_closes>>

\* a plausible slip: the timeout callback is invoked whether or not the
\* entry was still pending
timeout_cb_due_always(i) == TRUE

\* "Call timeout callback if ack was still pending"
timeout_cb_due(i) == i \in m_acks

\* the timer handler armed by emit, run with no error code
ack_timeout_handler(i) ==
    /\ NetIdle /\ ack_timer[i] = "fired"
    /\ ack_timer' = [ack_timer EXCEPT ![i] = "done"]
    /\ m_acks' = m_acks \ {i}
    /\ m_ack_timers' = m_ack_timers \ {i}
    /\ timeout_calls' = IF timeout_cb_due(i)
                        THEN [timeout_calls EXCEPT ![i] = @ + 1] ELSE timeout_calls
    /\ awaiter' = IF timeout_cb_due(i) /\ i = awaiter.id
                  THEN awaiter_set(awaiter, "timeout") ELSE awaiter
    /\ UNCHANGED <<m_con_state, m_con, m_abort_retries, m_reconn_made,
                   m_reconn_attempts, m_reconn_delay, m_reconn_delay_max,
                   m_reconn_timer, m_ping_timeout_timer, m_has_pending_reason,
                   m_pending_disconnect_reason, m_sid, m_ping_interval, m_ping_timeout,
                   m_network_thread, transport, local_close_code, io_queue, timer_q,
                   loop_running, net_pc, in_map, sock_client, m_connected,
                   m_packet_queue, m_connection_timer, s_global_event_id, usr_pc,
                   em_pc, em_id, em_pkt, em_local, wire, reconnect_log, close_log,
                   fail_log, ack_calls, delay_out, user_closed, sock_created,
                   close_called, chat, m_event_binding, ev, lk_pc, lk_owner, sock_map,
                   sock_next, sock_ret, event_calls, ack_recv, id_log, enc_out,
                   m_partial_packet, decoded, fed, socket_listener_calls,
                   ping_expired_on, traffic, metrics, ns_close_sent, state_notified,
                   run_timers, dropped, transports_left, n_connects, n_emits,
                   n_inbound, n_closes>>
(* ======================================================================= *)
(* the mutexes held along each handler, up to the user callbacks it calls  *)
(* ======================================================================= *)
Mutexes == {"m_socket_mutex", "m_listener_mutex", "m_event_mutex", "m_packet_mutex"}
Threads == {"net", "usr"}

Lock(m) == [op |-> "lock", arg |-> m]
Unlock(m) == [op |-> "unlock", arg |-> m]
Call(cb) == [op |-> "call", arg |-> cb]

\* a plausible slip: the lock_guard sits at function scope and is still
\* held when the callback is called
Scoped_to_function_end(m) == <<Lock(m)>>

\* { std::lock_guard<std::mutex> guard(m); ...copy or update... }
Scoped(m) == <<Lock(m), Unlock(m)>>

\* a listener of the client copied under m_listener_mutex, then called
ClientListener(cb) == Scoped("m_listener_mutex") \o <<Call(cb)>>

\* socket::impl::on_close: queue cleared, on_socket_closed, remove_socket
socket_on_close_path ==
    Scoped("m_packet_mutex") \o ClientListener("socket_close_listener")
        \o Scoped("m_socket_mutex")

\* the handlers run by the network thread
NetPaths ==
    ("connect_impl" :> ClientListener("fail_listener"))
     @@ ("timeout_reconnect" :> ClientListener("state_listener")
                               \o ClientListener("reconnecting_listener"))
     @@ ("on_open" :> ClientListener("state_listener") \o Scoped("m_socket_mutex")
                     \o ClientListener("open_listener"))
     @@ ("on_fail_retry" :> ClientListener("state_listener") \o Scoped("m_socket_mutex")
                           \o Scoped("m_packet_mutex")
                           \o ClientListener("reconnect_listener"))
     @@ ("on_fail" :> ClientListener("state_listener") \o Scoped("m_socket_mutex")
                     \o Scoped("m_packet_mutex") \o ClientListener("fail_listener"))
     @@ ("on_close_retry" :> ClientListener("state_listener") \o Scoped("m_socket_mutex")
                            \o Scoped("m_packet_mutex")
                            \o ClientListener("reconnect_listener"))
     @@ ("on_close" :> ClientListener("state_listener") \o Scoped("m_socket_mutex")
                      \o Scoped("m_packet_mutex") \o ClientListener("close_listener"))
     @@ ("on_decode_connect" :> Scoped("m_socket_mutex")
                               \o ClientListener("socket_open_listener")
                               \o Scoped("m_packet_mutex"))
     @@ ("on_decode_disconnect" :> Scoped("m_socket_mutex") \o socket_on_close_path)
     @@ ("on_decode_event" :> Scoped("m_socket_mutex") \o Scoped("m_event_mutex")
                             \o <<Call("event_listener")>> \o Scoped("m_event_mutex")
                             \o <<Call("any_listener")>> \o Scoped("m_packet_mutex"))
     @@ ("on_decode_ack" :> Scoped("m_socket_mutex") \o Scoped("m_event_mutex")
                           \o <<Call("ack_callback")>>)
     @@ ("on_decode_error" :> Scoped("m_socket_mutex") \o <<Call("error_listener")>>)
     @@ ("ack_timeout" :> Scoped("m_event_mutex") \o <<Call("timeout_callback")>>)
     @@ ("timeout_connection" :> socket_on_close_path)

\* the API calls run by a user thread
UserPaths ==
    ("connect" :> ClientListener("state_listener"))
     @@ ("close" :> ClientListener("state_listener") \o Scoped("m_socket_mutex")
                   \o Scoped("m_packet_mutex"))
     @@ ("socket" :> <<Lock("m_socket_mutex"), Unlock("m_socket_mutex")>>)
     @@ ("on" :> Scoped("m_event_mutex"))
     @@ ("off" :> Scoped("m_event_mutex"))
     @@ ("emit" :> Scoped("m_event_mutex") \o Scoped("m_packet_mutex"))

PathsOf(t) == IF t = "net" THEN NetPaths ELSE UserPaths

\* thread t starts handler h
lk_enter(t, h) ==
    /\ lk_pc[t] = <<>>
    /\ lk_pc' = [lk_pc EXCEPT ![t] = PathsOf(t)[h]]
    /\ UNCHANGED <<m_con_state, m_con, m_abort_retries, m_reconn_made,
                   m_reconn_attempts, m_reconn_delay, m_reconn_delay_max,
                   m_reconn_timer, m_ping_timeout_timer, m_has_pending_reason,
                   m_pending_disconnect_reason, m_sid, m_ping_interval, m_ping_timeout,
                   m_network_thread, transport, local_close_code, io_queue, timer_q,
                   loop_running, net_pc, in_map, sock_client, m_connected,
                   m_packet_queue, m_connection_timer, m_acks, m_ack_timers, ack_timer,
                   s_global_event_id, usr_pc, em_pc, em_id, em_pkt, em_local, awaiter,
                   wire, reconnect_log, close_log, fail_log, ack_calls, timeout_calls,
                   delay_out, user_closed, sock_created, close_called, chat,
                   m_event_binding, ev, lk_owner, sock_map, sock_next, sock_ret,
                   event_calls, ack_recv, id_log, enc_out, m_partial_packet, decoded,
                   fed, socket_listener_calls, ping_expired_on, traffic, metrics,
                   ns_close_sent, state_notified, run_timers, dropped, transports_left,
                   n_connects, n_emits, n_inbound, n_closes>>

\* thread t takes the next step of its handler: a lock waits for the owner
lk_step(t) ==
    /\ lk_pc[t] # <<>>
    /\ LET o == Head(lk_pc[t])
       IN  /\ o.op = "lock" => lk_owner[o.arg] = "free"
           /\ lk_owner' = IF o.op = "lock" THEN [lk_owner EXCEPT ![o.arg] = t]
                          ELSE IF o.op = "unlock" THEN [lk_owner EXCEPT ![o.arg] = "free"]
                          ELSE lk_owner
    /\ lk_pc' = [lk_pc EXCEPT ![t] = Tail(@)]
    /\ UNCHANGED <<m_con_state, m_con, m_abort_retries, m_reconn_made,
                   m_reconn_attempts, m_reconn_delay, m_reconn_delay_max,
                   m_reconn_timer, m_ping_timeout_timer, m_has_pending_reason,
                   m_pending_disconnect_reason, m_sid, m_ping_interval, m_ping_timeout,
                   m_network_thread, transport, local_close_code, io_queue, timer_q,
                   loop_running, net_pc, in_map, sock_client, m_connected,
                   m_packet_queue, m_connection_timer, m_acks, m_ack_timers, ack_timer,
                   s_global_event_id, usr_pc, em_pc, em_id, em_pkt, em_local, awaiter,
                   wire, reconnect_log, close_log, fail_log, ack_calls, timeout_calls,
                   delay_out, user_closed, sock_created, close_called, chat,
                   m_event_binding, ev, sock_map, sock_next, sock_ret, event_calls,
                   ack_recv, id_log, enc_out, m_partial_packet, decoded, fed,
                   socket_listener_calls, ping_expired_on, traffic, metrics,
                   ns_close_sent, state_notified, run_timers, dropped, transports_left,
                   n_connects, n_emits, n_inbound, n_closes>>

(* ======================================================================= *)
(* client_impl::socket(nsp): the map from namespace to socket              *)
(* ======================================================================= *)
\* namespace names as character sequences, as a caller may pass them
RawNames == {<<>>, <<"/">>, <<"c">>, <<"/", "c">>, <<"/", "d">>}

\* the sockets constructed in a behaviour are numbered from 1
MaxSockets == 3

\* a plausible slip: the name is used as the key as it was passed
normalize_nsp_verbatim(nsp) == nsp

\* client_impl::socket: "" becomes "/", a name without a leading '/' gets
\* one prepended, any other name is kept
normalize_nsp(nsp) ==
    IF nsp = <<>> THEN <<"/">>
    ELSE IF nsp[1] # "/" THEN <<"/">> \o nsp
    ELSE nsp

\* m_sockets.find(aux)
find_socket(aux) == {e \in sock_map : e.nsp = aux}

\* client_impl::socket(nsp) under m_socket_mutex: the socket stored under
\* the normalized name, or a new socket inserted under it
socket_call(nsp) ==
    /\ LET aux == normalize_nsp(nsp)
           found == find_socket(aux)
       IN  IF found # {}
           THEN /\ sock_ret' = [sock_ret EXCEPT ![nsp] = (CHOOSE e \in found : TRUE).id]
                /\ UNCHANGED <<sock_map, sock_next>>
           ELSE /\ sock_next <= MaxSockets
                /\ sock_map' = sock_map \cup {[nsp |-> aux, id |-> sock_next]}
                /\ sock_next' = sock_next + 1
                /\ sock_ret' = [sock_ret EXCEPT ![nsp] = sock_next]
    /\ UNCHANGED <<m_con_state, m_con, m_abort_retries, m_reconn_made,
                   m_reconn_attempts, m_reconn_delay, m_reconn_delay_max,
                   m_reconn_timer, m_ping_timeout_timer, m_has_pending_reason,
                   m_pending_disconnect_reason, m_sid, m_ping_interval, m_ping_timeout,
                   m_network_thread, transport, local_close_code, io_queue, timer_q,
                   loop_running, net_pc, in_map, sock_client, m_connected,
                   m_packet_queue, m_connection_timer, m_acks, m_ack_timers, ack_timer,
                   s_global_event_id, usr_pc, em_pc, em_id, em_pkt, em_local, awaiter,
                   wire, reconnect_log, close_log, fail_log, ack_calls, timeout_calls,
                   delay_out, user_closed, sock_created, close_called, chat,
                   m_event_binding, ev, lk_pc, lk_owner, event_calls, ack_recv, id_log,
                   enc_out, m_partial_packet, decoded, fed, socket_listener_calls,
                   ping_expired_on, traffic, metrics, ns_close_sent, state_notified,
                   run_timers, dropped, transports_left, n_connects, n_emits,
                   n_inbound, n_closes>>

\* client_impl::remove_socket(nsp), called by socket::impl::on_close: the
\* handles returned for the namespace are those of a closed socket
remove_socket(aux) ==
    /\ find_socket(aux) # {}
    /\ sock_map' = sock_map \ find_socket(aux)
    /\ sock_ret' = [n \in RawNames |->
                       IF sock_ret[n] \in {e.id : e \in find_socket(aux)}
                       THEN 0 ELSE sock_ret[n]]
    /\ UNCHANGED <<m_con_state, m_con, m_abort_retries, m_reconn_made,
                   m_reconn_attempts, m_reconn_delay, m_reconn_delay_max,
                   m_reconn_timer, m_ping_timeout_timer, m_has_pending_reason,
                   m_pending_disconnect_reason, m_sid, m_ping_interval, m_ping_timeout,
                   m_network_thread, transport, local_close_code, io_queue, timer_q,
                   loop_running, net_pc, in_map, sock_client, m_connected,
                   m_packet_queue, m_connection_timer, m_acks, m_ack_timers, ack_timer,
                   s_global_event_id, usr_pc, em_pc, em_id, em_pkt, em_local, awaiter,
                   wire, reconnect_log, close_log, fail_log, ack_calls, timeout_calls,
                   delay_out, user_closed, sock_created, close_called, chat,
                   m_event_binding, ev, lk_pc, lk_owner, sock_next, event_calls,
                   ack_recv, id_log, enc_out, m_partial_packet, decoded, fed,
                   socket_listener_calls, ping_expired_on, traffic, metrics,
                   ns_close_sent, state_notified, run_timers, dropped, transports_left,
                   n_connects, n_emits, n_inbound, n_closes>>


(***************************************************************************)
(* The process-wide ack id counter (sio_socket.cpp:279-298).               *)
(* s_global_event_id is a std::atomic<unsigned int>; the variable holds    *)
(* its 32 bits read as a two's complement int, which is the value that the *)
(* assignment to int pack_id yields.                                       *)
(***************************************************************************)
MaxAllocs == 3
Clients == {1, 2}

\* counter values a process may have reached: no emit so far, and two
\* emits short of 2^31
IdStarts == {FirstEventId, IntMax - 1}

\* what packet::accept writes for the id: nothing for a negative _pack_id
frame_id(pack_id) == IF pack_id >= 0 THEN pack_id ELSE -1

\* socket::impl::emit with an ack callback, on the socket of namespace nsp
\* of client c, from any thread: the fetch_add is one atomic step
emit_with_ack(c, nsp) ==
    /\ Len(id_log) < MaxAllocs
    /\ s_global_event_id' = fetch_add(s_global_event_id)
    /\ id_log' = Append(id_log, [client |-> c, nsp |-> nsp,
                                 pack_id |-> s_global_event_id,
                                 sent_id |-> frame_id(s_global_event_id)])
    /\ UNCHANGED <<m_con_state, m_con, m_abort_retries, m_reconn_made,
                   m_reconn_attempts, m_reconn_delay, m_reconn_delay_max,
                   m_reconn_timer, m_ping_timeout_timer, m_has_pending_reason,
                   m_pending_disconnect_reason, m_sid, m_ping_interval, m_ping_timeout,
                   m_network_thread, transport, local_close_code, io_queue, timer_q,
                   loop_running, net_pc, in_map, sock_client, m_connected,
                   m_packet_queue, m_connection_timer, m_acks, m_ack_timers, ack_timer,
                   usr_pc, em_pc, em_id, em_pkt, em_local, awaiter, wire,
                   reconnect_log, close_log, fail_log, ack_calls, timeout_calls,
                   delay_out, user_closed, sock_created, close_called, chat,
                   m_event_binding, ev, lk_pc, lk_owner, sock_map, sock_next, sock_ret,
                   event_calls, ack_recv, enc_out, m_partial_packet, decoded, fed,
                   socket_listener_calls, ping_expired_on, traffic, metrics,
                   ns_close_sent, state_notified, run_timers, dropped, transports_left,
                   n_connects, n_emits, n_inbound, n_closes>>

InitIds ==
    /\ \E first_id \in IdStarts : InitWith(first_id)
    /\ m_reconn_made = 0 /\ transports_left = 0

NextIds ==
    \/ \E c \in Clients, nsp \in Namespaces : emit_with_ack(c, nsp)

SpecIds == InitIds /\ [][NextIds]_vars

(***************************************************************************)
(* The packet codec (sio_packet.cpp).  A message is a tree of nodes; a     *)
(* node is a string, a binary with its bytes, a placeholder with its num,  *)
(* or an array of nodes.  The JSON text of a frame is kept as the tree it  *)
(* spells out; a text that does not parse is the node BadJson.             *)
(***************************************************************************)
MaxItems == 2
MaxInner == 1

\* bytes of binary attachments: 4 is packet::frame_message, 52 is '4'
BinPayloads == {<<4, 1>>, <<4, 2>>, <<0, 1>>}

Node(flag, bin, num, items) == [flag |-> flag, bin |-> bin, num |-> num, items |-> items]
Str(s) == Node(s, <<>>, -1, <<>>)
Bin(b) == Node("binary", b, -1, <<>>)
Placeholder(n) == Node("placeholder", <<>>, n, <<>>)
Arr(items) == Node("array", <<>>, -1, items)
NullMsg == Node("nullptr", <<>>, -1, <<>>)
BadJson == Node("unparsable", <<>>, -1, <<>>)

SeqUpTo(S, n) == UNION {[1..k -> S] : k \in 0..n}

Leaves == {Str("str")} \cup {Bin(b) : b \in BinPayloads}
Items == Leaves \cup {Arr(s) : s \in SeqUpTo(Leaves, MaxInner)}

\* message::list::to_array_message(event_name): the name, then the arguments
Messages == {Arr(<<Str("str")>> \o s) : s \in SeqUpTo(Items, MaxItems)}

\* accept_binary_message with the num taken after the push_back
accept_binary_message_after_push(msg, buffers) ==
    [json |-> Placeholder(Len(buffers) + 1), buffers |-> Append(buffers, msg.bin)]

\* accept_binary_message: the placeholder carries buffers.size(), then the
\* bytes are pushed
accept_binary_message(msg, buffers) ==
    [json |-> Placeholder(Len(buffers)), buffers |-> Append(buffers, msg.bin)]

RECURSIVE accept_message(_, _)
RECURSIVE accept_array_message(_, _, _)
\* accept_message: the JSON written for msg and the buffers after it
accept_message(msg, buffers) ==
    IF msg.flag = "binary" THEN accept_binary_message(msg, buffers)
    ELSE IF msg.flag = "array" THEN accept_array_message(msg.items, <<>>, buffers)
    ELSE [json |-> msg, buffers |-> buffers]

\* accept_array_message: the elements in order, each with the buffers that
\* the elements before it left
accept_array_message(items, written, buffers) ==
    IF items = <<>>
    THEN [json |-> Arr(written), buffers |-> buffers]
    ELSE LET r == accept_message(Head(items), buffers)
         IN  accept_array_message(Tail(items), Append(written, r.json), r.buffers)

\* no "<n>-" in the header
NoAtt == -1

\* a WebSocket payload: a text with the fields of the Socket.IO header and
\* its JSON, or raw bytes
TextFrame(frame, type, att, nsp, id, json) ==
    [text |-> TRUE, frame |-> frame, type |-> type, att |-> att, nsp |-> nsp,
     id |-> id, json |-> json, bytes |-> <<>>]
ByteFrame(b) ==
    [text |-> FALSE, frame |-> "", type |-> "", att |-> NoAtt, nsp |-> "",
     id |-> -1, json |-> NullMsg, bytes |-> b]

\* packet::accept for a frame_message packet: the text and the buffers
accept(pack) ==
    LET hasMessage == pack.message # NullMsg
        r == IF hasMessage THEN accept_message(pack.message, <<>>)
             ELSE [json |-> NullMsg, buffers |-> <<>>]
        hasBinary == Len(r.buffers) > 0
        type == IF pack.type = "event" THEN (IF hasBinary THEN "binary_event" ELSE "event")
                ELSE IF pack.type = "ack" THEN (IF hasBinary THEN "binary_ack" ELSE "ack")
                ELSE pack.type
    IN  [text |-> TextFrame("message", type,
                            IF hasBinary THEN Len(r.buffers) ELSE NoAtt,
                            IF pack.nsp \in {"", "/"} THEN "" ELSE pack.nsp,
                            frame_id(pack.pack_id), r.json),
         buffers |-> r.buffers]

\* packet_manager::encode: the calls of the encode callback, in order
encode(pack) ==
    LET a == accept(pack)
    IN  <<[isBinary |-> FALSE, payload |-> a.text]>>
        \o [i \in 1..Len(a.buffers) |-> [isBinary |-> TRUE, payload |-> ByteFrame(a.buffers[i])]]

\* packet p(m_nsp, msg_ptr, pack_id) or packet p(m_nsp, msg, id, true)
MsgPacket(type, nsp, msg, pack_id) ==
    [type |-> type, nsp |-> nsp, message |-> msg, pack_id |-> pack_id]

\* one packet of type EVENT or ACK is handed to packet_manager::encode
encode_call(pack) ==
    /\ enc_out = <<>>
    /\ enc_out' = <<[pack |-> pack, frames |-> encode(pack)]>>
    /\ UNCHANGED <<m_con_state, m_con, m_abort_retries, m_reconn_made,
                   m_reconn_attempts, m_reconn_delay, m_reconn_delay_max,
                   m_reconn_timer, m_ping_timeout_timer, m_has_pending_reason,
                   m_pending_disconnect_reason, m_sid, m_ping_interval, m_ping_timeout,
                   m_network_thread, transport, local_close_code, io_queue, timer_q,
                   loop_running, net_pc, in_map, sock_client, m_connected,
                   m_packet_queue, m_connection_timer, m_acks, m_ack_timers, ack_timer,
                   s_global_event_id, usr_pc, em_pc, em_id, em_pkt, em_local, awaiter,
                   wire, reconnect_log, close_log, fail_log, ack_calls, timeout_calls,
                   delay_out, user_closed, sock_created, close_called, chat,
                   m_event_binding, ev, lk_pc, lk_owner, sock_map, sock_next, sock_ret,
                   event_calls, ack_recv, id_log, m_partial_packet, decoded, fed,
                   socket_listener_calls, ping_expired_on, traffic, metrics,
                   ns_close_sent, state_notified, run_timers, dropped, transports_left,
                   n_connects, n_emits, n_inbound, n_closes>>

(***************************************************************************)
(* Decoding: packet::parse, packet::parse_buffer, from_json and            *)
(* packet_manager::put_payload.                                            *)
(***************************************************************************)
MaxFrames == 3

\* a "<n>-" whose n is not a number, and a text with no JSON part
BadAtt == -2
NoJson == Node("absent", <<>>, -1, <<>>)

\* what packet::parse reads in raw bytes: the frame from the first byte and,
\* in a MESSAGE frame, the type from the second; none of the bytes used
\* here starts a namespace or a JSON text
FrameOfByte(b) == IF b = 52 THEN "message" ELSE "junk"
TypeOfByte(b) == IF b = 52 THEN "error" ELSE "out_of_range"
AsText(payload) ==
    IF payload.text THEN payload
    ELSE LET b == payload.bytes
         IN  TextFrame(IF b = <<>> THEN "junk" ELSE FrameOfByte(b[1]),
                       IF Len(b) < 2 THEN "out_of_range" ELSE TypeOfByte(b[2]),
                       NoAtt, "", -1, NoJson)

\* from_json: a placeholder whose num is in range is looked up in the
\* buffers, any other placeholder is a null pointer
RECURSIVE from_json(_, _)
from_json(value, buffers) ==
    IF value.flag = "placeholder"
    THEN IF value.num >= 0 /\ value.num < Len(buffers)
         THEN Bin(buffers[value.num + 1]) ELSE NullMsg
    ELSE IF value.flag = "array"
    THEN Arr([i \in 1..Len(value.items) |-> from_json(value.items[i], buffers)])
    ELSE value

\* parser.parse(...) and, on SUCCESS, _message = from_json(doc, buffers)
parse_json(json, buffers) ==
    IF json \in {BadJson, NoJson} THEN NullMsg ELSE from_json(json, buffers)

\* a packet under decoding: json_text is the front of _buffers, buffers
\* the attachments behind it
Packet(frame, type, nsp, id, msg, pending, json_text, buffers) ==
    [frame |-> frame, type |-> type, nsp |-> nsp, pack_id |-> id, message |-> msg,
     pending_buffers |-> pending, json_text |-> json_text, buffers |-> buffers]

BinaryTypes == {"binary_event", "binary_ack"}

\* packet::parse: more is true when buffers are awaited, throws when
\* std::stoul finds no number
parse(payload) ==
    LET t == AsText(payload)
        isMsg == t.frame = "message"
        type == IF isMsg THEN t.type ELSE "undetermined"
        pending == IF isMsg /\ type \in BinaryTypes THEN t.att ELSE 0
        nsp == IF t.nsp = "" THEN "/" ELSE t.nsp
        P(ty, n, id, msg, pend, jt) == Packet(t.frame, ty, n, id, msg, pend, jt, <<>>)
    IN  IF isMsg /\ type = "out_of_range"
        THEN [more |-> FALSE, throws |-> FALSE, pkt |-> P(type, "", -1, NullMsg, 0, NoJson)]
        ELSE IF isMsg /\ type \in BinaryTypes /\ t.att = BadAtt
        THEN [more |-> FALSE, throws |-> TRUE, pkt |-> P(type, "", -1, NullMsg, 0, NoJson)]
        ELSE IF t.json = NoJson
        THEN [more |-> FALSE, throws |-> FALSE, pkt |-> P(type, nsp, -1, NullMsg, pending, NoJson)]
        ELSE IF isMsg /\ type \in BinaryTypes
        THEN [more |-> TRUE, throws |-> FALSE, pkt |-> P(type, nsp, t.id, NullMsg, pending, t.json)]
        ELSE [more |-> FALSE, throws |-> FALSE,
              pkt |-> P(type, nsp, t.id, parse_json(t.json, <<>>), pending, NoJson)]

\* packet::parse_buffer: the whole payload is pushed; the JSON is parsed
\* when the count reaches 0, and not at all when it was 0 already
parse_buffer(p, buf_payload) ==
    IF p.pending_buffers > 0
    THEN LET bufs == Append(p.buffers, buf_payload)
         IN  IF p.pending_buffers = 1
             THEN [more |-> FALSE,
                   pkt |-> [p EXCEPT !.pending_buffers = 0, !.json_text = NoJson, !.buffers = <<>>,
                                     !.message = parse_json(p.json_text, bufs)]]
             ELSE [more |-> TRUE,
                   pkt |-> [p EXCEPT !.pending_buffers = @ - 1, !.buffers = bufs]]
    ELSE [more |-> FALSE, pkt |-> p]

\* packet::is_text_message: the first byte is '4'
is_text_message(payload) ==
    IF payload.text THEN payload.frame = "message"
    ELSE payload.bytes # <<>> /\ Head(payload.bytes) = 52

\* packet::is_binary_message: the first byte is frame_message
is_binary_message(payload) ==
    ~payload.text /\ payload.bytes # <<>> /\ Head(payload.bytes) = 4

\* packet_manager::put_payload on the partial packet held: the partial
\* packet kept, the packets handed to the decode callback, and whether an
\* exception of parse leaves the function
decode_payload(partial, payload) ==
    IF is_text_message(payload)
    THEN LET r == parse(payload)
         IN  [partial |-> IF r.more THEN <<r.pkt>> ELSE partial,
              out |-> IF r.more \/ r.throws THEN <<>> ELSE <<r.pkt>>,
              throws |-> r.throws]
    ELSE IF is_binary_message(payload)
    THEN IF partial # <<>>
         THEN LET r == parse_buffer(partial[1], payload.bytes)
              IN  [partial |-> IF r.more THEN <<r.pkt>> ELSE <<>>,
                   out |-> IF r.more THEN <<>> ELSE <<r.pkt>>,
                   throws |-> FALSE]
         ELSE [partial |-> partial, out |-> <<>>, throws |-> FALSE]
    ELSE LET r == parse(payload)
         IN  [partial |-> partial,
              out |-> IF r.throws THEN <<>> ELSE <<r.pkt>>,
              throws |-> r.throws]

\* packet_manager::put_payload for one inbound WebSocket payload, with a
\* decode callback that records the packet
put_payload(payload) ==
    /\ net_pc = "idle" /\ Len(fed) < MaxFrames
    /\ fed' = Append(fed, payload)
    /\ LET r == decode_payload(m_partial_packet, payload)
       IN  /\ m_partial_packet' = r.partial
           /\ decoded' = decoded \o r.out
           /\ net_pc' = IF r.throws THEN "terminated" ELSE net_pc
    /\ UNCHANGED <<m_con_state, m_con, m_abort_retries, m_reconn_made,
                   m_reconn_attempts, m_reconn_delay, m_reconn_delay_max,
                   m_reconn_timer, m_ping_timeout_timer, m_has_pending_reason,
                   m_pending_disconnect_reason, m_sid, m_ping_interval, m_ping_timeout,
                   m_network_thread, transport, local_close_code, io_queue, timer_q,
                   loop_running, in_map, sock_client, m_connected, m_packet_queue,
                   m_connection_timer, m_acks, m_ack_timers, ack_timer,
                   s_global_event_id, usr_pc, em_pc, em_id, em_pkt, em_local, awaiter,
                   wire, reconnect_log, close_log, fail_log, ack_calls, timeout_calls,
                   delay_out, user_closed, sock_created, close_called, chat,
                   m_event_binding, ev, lk_pc, lk_owner, sock_map, sock_next, sock_ret,
                   event_calls, ack_recv, id_log, enc_out, socket_listener_calls,
                   ping_expired_on, traffic, metrics, ns_close_sent, state_notified,
                   run_timers, dropped, transports_left, n_connects, n_emits,
                   n_inbound, n_closes>>

\* what the network thread may do after p.get_message()->get_flag() on a
\* null pointer: the process dies, or the read yields some flag that is
\* not flag_array and the EVENT branch does nothing more
NullFlagOutcomes == {"crashed", "idle"}

\* client_impl::on_message for a payload that yields no packet or a packet
\* with a null message: put_payload, on_decode, socket::impl::on_message_packet
on_message(payload) ==
    /\ NetIdle /\ transport = "open" /\ n_inbound < MaxInbound
    /\ n_inbound' = n_inbound + 1
    /\ fed' = Append(fed, payload)
    /\ LET r == decode_payload(m_partial_packet, payload)
           p == r.out[1]
           so == get_socket_locked(p.nsp)
           \* on_message_packet: NULL_GUARD(m_client) and p.get_nsp() == m_nsp
           taken == so # "none" /\ (so = "/" => sock_client) /\ so = p.nsp
       IN  /\ \A i \in 1..Len(r.out) : r.out[i].message = NullMsg
           /\ m_partial_packet' = r.partial
           /\ decoded' = decoded \o r.out
           /\ IF r.throws
              THEN net_pc' = "terminated"
              ELSE IF /\ r.out # <<>> /\ p.frame = "message" /\ taken
                      /\ p.type \in {"event", "binary_event", "ack", "binary_ack"}
              THEN net_pc' \in NullFlagOutcomes
              ELSE UNCHANGED net_pc
    /\ UNCHANGED <<m_con_state, m_con, m_abort_retries, m_reconn_made,
                   m_reconn_attempts, m_reconn_delay, m_reconn_delay_max,
                   m_reconn_timer, m_ping_timeout_timer, m_has_pending_reason,
                   m_pending_disconnect_reason, m_sid, m_ping_interval, m_ping_timeout,
                   m_network_thread, transport, local_close_code, io_queue, timer_q,
                   loop_running, in_map, sock_client, m_connected, m_packet_queue,
                   m_connection_timer, m_acks, m_ack_timers, ack_timer,
                   s_global_event_id, usr_pc, em_pc, em_id, em_pkt, em_local, awaiter,
                   wire, reconnect_log, close_log, fail_log, ack_calls, timeout_calls,
                   delay_out, user_closed, sock_created, close_called, chat,
                   m_event_binding, ev, lk_pc, lk_owner, sock_map, sock_next, sock_ret,
                   event_calls, ack_recv, id_log, enc_out, socket_listener_calls,
                   ping_expired_on, traffic, metrics, ns_close_sent, state_notified,
                   run_timers, dropped, transports_left, n_connects, n_emits, n_closes>>

\* packets whose encoding is fed back
EncPackets ==
    {MsgPacket("event", "/", Arr(<<Str("str")>> \o s), -1) :
        s \in {<<>>, <<Bin(<<4, 1>>)>>, <<Bin(<<0, 1>>)>>,
               <<Bin(<<4, 2>>), Arr(<<Bin(<<4, 1>>)>>)>>}}

\* texts a server may send: an event with two attachments named out of
\* order, BINARY_EVENT headers declaring 0 attachments and a count that is
\* no number, an event whose JSON does not parse, an event without JSON
ServerTexts ==
    {TextFrame("message", "binary_event", 2, "", -1,
               Arr(<<Str("str"), Placeholder(1), Placeholder(0)>>)),
     TextFrame("message", "binary_event", 0, "", -1, Arr(<<Str("str")>>)),
     TextFrame("message", "binary_event", BadAtt, "", -1, Arr(<<Str("str")>>)),
     TextFrame("message", "event", NoAtt, "", -1, BadJson),
     TextFrame("message", "event", NoAtt, "", -1, NoJson),
     TextFrame("message", "out_of_range", NoAtt, "", -1, NoJson)}

\* MESSAGE texts with a malformed header or a JSON that does not parse
MalformedTexts ==
    {t \in ServerTexts : t.att = BadAtt \/ t.type = "out_of_range" \/ t.json = BadJson}

Payloads ==
    {accept(p).text : p \in EncPackets} \cup ServerTexts
    \cup {ByteFrame(b) : b \in BinPayloads \cup {<<52, 52>>}}

\* an EVENT with or without an ack id, or an ACK, is sent on a namespace
emit_or_ack ==
    /\ enc_out = <<>>
    /\ \E type \in {"event", "ack"}, nsp \in Namespaces, msg \in Messages, id \in {-1, 0} :
          (type = "ack" => id >= 0) /\ encode_call(MsgPacket(type, nsp, msg, id))

NextEncode ==
    \/ emit_or_ack

SpecEncode == Init /\ [][NextEncode]_vars

NextDecode ==
    \/ \E payload \in Payloads : put_payload(payload)

SpecDecode == Init /\ [][NextDecode]_vars

\* one namespace on an established connection whose server sends malformed
\* MESSAGE frames
NextMalformed ==
    \/ client_socket
    \/ connect
    \/ run_connect_impl
    \/ run_send_impl
    \/ on_open
    \/ on_open_sockets
    \/ \E s \in BOOLEAN : on_connect_response(s)
    \/ on_connected_flush
    \/ \E payload \in MalformedTexts : on_message(payload)

SpecMalformed == Init /\ [][NextMalformed]_vars
NextDelay ==
    \/ \E d \in 0..MaxDelay, m \in 0..MaxDelay : set_reconnect_config(3, d, m)
    \/ CallNextDelay

SpecDelay == InitDelay /\ [][NextDelay]_vars


(* ======================================================================= *)
(* specifications                                                          *)
(* ======================================================================= *)
EventLoop ==
    \/ run_connect_impl
    \/ run_loop_end

Transport ==
    \/ on_open
    \/ on_open_sockets
    \/ on_fail
    \/ \E c \in CloseCodes : on_close(c)
    \/ reconn_timer_expire
    \/ timeout_reconnect_load
    \/ timeout_reconnect_store

\* the connection engine with a user thread that connects and closes
NextEngine ==
    \/ \E cfg \in {<<0, 1, 4>>, <<3, 1, 4>>} : set_reconnect_config(cfg[1], cfg[2], cfg[3])
    \/ connect
    \/ connect_join
    \/ close_store
    \/ close_rest
    \/ sync_close_store
    \/ sync_close_rest
    \/ sync_close_join
    \/ run_close_impl
    \/ EventLoop
    \/ Transport
    \/ \E kind \in EngineKinds : on_handshake(kind)
    \/ on_ping
    \/ on_close_frame
    \/ ping_timer_expire
    \/ timeout_ping

SpecEngine == Init /\ [][NextEngine]_vars

\* the engine with three reconnect attempts configured, connections that
\* open or fail and drop, and no user close
NextRetry ==
    \/ \E attempts \in {0, 3} : set_reconnect_config(attempts, 1, 4)
    \/ connect
    \/ connect_join
    \/ EventLoop
    \/ Transport
    \/ \E kind \in EngineKinds : on_handshake(kind)

SpecRetry == InitRetry /\ [][NextRetry]_vars

\* the engine receiving every kind of OPEN payload, with a user thread that
\* connects and closes
NextHandshake ==
    \/ connect
    \/ connect_join
    \/ close_store
    \/ close_rest
    \/ run_close_impl
    \/ EventLoop
    \/ Transport
    \/ \E kind \in HandshakeKinds : on_handshake(kind)

SpecHandshake == Init /\ [][NextHandshake]_vars

SocketNet ==
    \/ client_socket
    \/ connect
    \/ connect_join
    \/ EventLoop
    \/ run_send_impl
    \/ Transport
    \/ \E s \in BOOLEAN : on_connect_response(s)
    \/ on_connected_flush
    \/ on_disconnect_packet
    \/ connection_timer_expire
    \/ timeout_connection

SendPacket ==
    \/ send_packet_check
    \/ send_packet_drain
    \/ send_packet_send
    \/ send_packet_push

\* one namespace socket with a user thread that emits events, over an
\* engine that connects once and reconnects after drops
NextSocket ==
    \/ SocketNet
    \/ emit_plain
    \/ SendPacket

SpecSocket == Init /\ [][NextSocket]_vars

\* a namespace on a connection that is established and stays up, with a
\* user thread that emits with ack and timeout
NextAck ==
    \/ client_socket
    \/ connect
    \/ run_connect_impl
    \/ run_send_impl
    \/ on_open
    \/ on_open_sockets
    \/ \E s \in BOOLEAN : on_connect_response(s)
    \/ on_connected_flush
    \/ emit_arm
    \/ emit_store
    \/ SendPacket
    \/ \E i \in EmitIds : on_socketio_ack(i)
    \/ \E i \in EmitIds : ack_timer_expire(i)
    \/ \E i \in EmitIds : ack_timeout_handler(i)

SpecAck == Init /\ [][NextAck]_vars

\* a namespace on a connection that is established and stays up, with a
\* user thread that closes the namespace handle and emits events
NextNamespaceClose ==
    \/ client_socket
    \/ connect
    \/ run_connect_impl
    \/ run_send_impl
    \/ on_open
    \/ on_open_sockets
    \/ \E s \in BOOLEAN : on_connect_response(s)
    \/ on_connected_flush
    \/ on_disconnect_packet
    \/ socket_close_call
    \/ grace_timer_expire
    \/ grace_handler
    \/ emit_plain
    \/ SendPacket

SpecNamespaceClose == Init /\ [][NextNamespaceClose]_vars

\* the listener a user binds on the socket of namespace nsp
ListenerOf(nsp) == IF nsp = "/" THEN 1 ELSE 2

\* two namespaces on a connection that is established and stays up, with a
\* user thread that binds listeners and a server that sends events
NextEvents ==
    \/ client_socket
    \/ client_socket_chat
    \/ \E nsp \in Namespaces, name \in EventNames : socket_on(nsp, name, ListenerOf(nsp))
    \/ connect
    \/ run_connect_impl
    \/ run_send_impl
    \/ on_open
    \/ on_open_sockets
    \/ \E s \in BOOLEAN : on_connect_response(s)
    \/ on_connected_flush
    \/ \E nsp \in Namespaces, name \in EventNames, id \in InboundIds :
           on_event_packet(nsp, name, id)
    \/ \E populate \in BOOLEAN : on_event_invoke(populate)

SpecEvents == Init /\ [][NextEvents]_vars

\* one namespace on a connection that is established and stays up, with a
\* user thread that binds, replaces and removes listeners while the server
\* sends events
NextListeners ==
    \/ client_socket
    \/ connect
    \/ run_connect_impl
    \/ on_open
    \/ on_open_sockets
    \/ \E name \in EventNames, f \in Listeners : socket_on("/", name, f)
    \/ \E name \in EventNames : socket_off("/", name)
    \/ \E name \in EventNames, id \in InboundIds : on_event_packet("/", name, id)
    \/ \E populate \in BOOLEAN : on_event_invoke(populate)

SpecListeners == Init /\ [][NextListeners]_vars

\* the network thread and a user thread running handlers side by side
NextLocks ==
    \/ \E h \in DOMAIN NetPaths : lk_enter("net", h)
    \/ \E h \in DOMAIN UserPaths : lk_enter("usr", h)
    \/ \E t \in Threads : lk_step(t)

SpecLocks == Init /\ [][NextLocks]_vars

\* socket(nsp) called with any name from any thread, and sockets closing
NextSocketMap ==
    \/ \E nsp \in RawNames : socket_call(nsp)
    \/ \E e \in sock_map : remove_socket(e.nsp)

SpecSocketMap == Init /\ [][NextSocketMap]_vars

\* a namespace on a connection that is established and stays up, with a
\* coroutine that calls emit_async with a timeout
NextAsync ==
    \/ client_socket
    \/ connect
    \/ run_connect_impl
    \/ run_send_impl
    \/ on_open
    \/ on_open_sockets
    \/ \E s \in BOOLEAN : on_connect_response(s)
    \/ on_connected_flush
    \/ emit_async_call
    \/ emit_store
    \/ SendPacket
    \/ await_suspend
    \/ \E i \in EmitIds : on_socketio_ack(i)
    \/ \E i \in EmitIds : ack_timer_expire(i)
    \/ \E i \in EmitIds : ack_timeout_handler(i)

SpecAsync == Init /\ [][NextAsync]_vars

\* a namespace on a connection that is established, with a user thread that
\* closes the namespace handle or the whole client, and a server that may
\* close the connection
NextClientClose ==
    \/ client_socket
    \/ connect
    \/ EventLoop
    \/ run_send_impl
    \/ run_close_impl
    \/ on_open
    \/ on_open_sockets
    \/ \E s \in BOOLEAN : on_connect_response(s)
    \/ on_connected_flush
    \/ socket_close_call
    \/ close_store
    \/ close_rest
    \/ sync_close_store
    \/ sync_close_rest
    \/ sync_close_join
    \/ \E c \in CloseCodes : on_close(c)
    \/ grace_timer_expire
    \/ grace_handler

SpecClientClose == Init /\ [][NextClientClose]_vars

\* a namespace on a connection that is established and stays up, with a
\* user thread that binds handlers for event "a" by on_with_ack while the
\* server sends events "a" and "b" with and without an ack id
NextWithAck ==
    \/ client_socket
    \/ \E h \in WithAckIds : socket_on_with_ack("a", h)
    \/ connect
    \/ run_connect_impl
    \/ on_open
    \/ on_open_sockets
    \/ \E s \in BOOLEAN : on_connect_response(s)
    \/ on_connected_flush
    \/ \E name \in EventNames, id \in InboundIds : on_event_packet("/", name, id)
    \/ \E populate \in BOOLEAN : on_event_invoke(populate)

SpecWithAck == Init /\ [][NextWithAck]_vars

\* one namespace handle over its lifetime: CONNECT responses, a server
\* DISCONNECT, the connect timeout, close() with its grace timer, and the
\* destruction of the client
NextSocketLifetime ==
    \/ client_socket
    \/ connect
    \/ EventLoop
    \/ run_send_impl
    \/ run_close_impl
    \/ on_open
    \/ on_open_sockets
    \/ \E c \in CloseCodes : on_close(c)
    \/ \E s \in BOOLEAN : on_connect_response(s)
    \/ on_connected_flush
    \/ on_disconnect_packet
    \/ connection_timer_expire
    \/ timeout_connection
    \/ socket_close_call
    \/ grace_timer_expire
    \/ grace_handler
    \/ destroy_guard
    \/ destroy_on_close
    \/ destroy_sync_close
    \/ destroy_join

SpecSocketLifetime == Init /\ [][NextSocketLifetime]_vars

\* the engine's connections, drops, failures and reconnect timer, with a
\* user thread that connects and closes; no frames are received
NextReconnectTimer ==
    \/ \E cfg \in {<<0, 1, 4>>, <<3, 1, 4>>} : set_reconnect_config(cfg[1], cfg[2], cfg[3])
    \/ connect
    \/ connect_join
    \/ close_store
    \/ close_rest
    \/ sync_close_store
    \/ sync_close_rest
    \/ sync_close_join
    \/ run_close_impl
    \/ EventLoop
    \/ Transport

SpecReconnectTimer == Init /\ [][NextReconnectTimer]_vars
(* ======================================================================= *)
(* properties                                                              *)
(* ======================================================================= *)
\* emit `i` of the timeout overload has left the block that stores its entry
Stored(i) == ~(em_id = i /\ em_pc = "store")

Calls(i) == ack_calls[i] + timeout_calls[i]

(* C1: for every emit with an ack callback, a timeout and a timeout        *)
(* callback, at most one of the two callbacks is invoked and neither is    *)
(* invoked twice, in every interleaving of on_socketio_ack with the timer  *)
(* handler and however often the server acknowledges the id.               *)
C1_AtMostOneCallback == \A i \in EmitIds : Calls(i) <= 1

\* the ACK was handled while the expired timer's handler was still queued,
\* and the handler has run since
C1_AckThenExpiredHandler ==
    \E i \in EmitIds :
        /\ ack_calls[i] = 1 /\ timeout_calls[i] = 0
        /\ ack_timer[i] = "done"

(* C2: for every such emit exactly one of the two callbacks is eventually  *)
(* invoked while the client and the socket stay alive.  The timeout        *)
(* callback is only ever invoked by the timer handler, so once that        *)
(* handler has run and emit has stored its entry one of the callbacks      *)
(* must have been invoked.                                                 *)
C2_ExactlyOneAfterTimer ==
    \A i \in EmitIds :
        (sock_client /\ ack_timer[i] = "done" /\ Stored(i)) => Calls(i) = 1

\* the EVENT packets of a packet sequence, in the sequence's order
EventsOf(w) == SelectSeq(w, LAMBDA p : p.type = "event")

\* packets carry the number of the emit call that made them
InOrder(w) == \A j, k \in 1..Len(w) : j < k => w[j].n < w[k].n

(* C3: the packets emitted by one user thread on one namespace reach the   *)
(* connection in the order they were emitted, in every interleaving of     *)
(* emit on the user thread with on_connected on the network thread.        *)
C3_EmitOrderKept == InOrder(EventsOf(wire))

(* C4: every packet appended to the pre-connect queue is sent when the     *)
(* CONNECT response is processed: whenever the namespace is connected,     *)
(* on_connected has finished and no emit call is in progress, the          *)
(* pre-connect queue is empty.                                             *)
C4_QueueEmptyWhenConnected ==
    (sock_client /\ m_connected /\ net_pc = "idle" /\ em_pc = "idle")
        => m_packet_queue = <<>>

\* a step that takes the reconnect attempt counter from a non-zero value to 0
CounterReset == m_reconn_made # 0 /\ m_reconn_made' = 0

(* C5, as the specification states it: the reconnect attempt counter is    *)
(* set to 0 only by a processed OPEN handshake that carries a sid.         *)
C5_ResetOnlyByHandshake == [][CounterReset => on_handshake_ok]_vars

(* C5, amended: the counter is set to 0 by every processed OPEN handshake  *)
(* that carries a sid, and otherwise only by a user connect() that starts  *)
(* a new run; the transport-open notification leaves it as it is.          *)
C5_ResetByHandshakeOrConnect ==
    [][/\ CounterReset => (on_handshake_ok \/ connect \/ connect_join)
       /\ on_handshake_ok => m_reconn_made' = 0
       /\ on_open => m_reconn_made' = m_reconn_made]_vars

\* a handshake has been processed on a transport opened by a reconnect
\* attempt of the first run
C5_HandshakeAfterReconnect ==
    /\ n_connects = 1 /\ Len(reconnect_log) > 0
    /\ transport = "open" /\ m_sid = "sid"
    /\ m_reconn_made = 0

\* the delay the specification states: delay_initial * 2^k, saturated
SaturatedDelay == Min(m_reconn_delay * Pow2(m_reconn_made), m_reconn_delay_max)

C7_Exhausted ==
    /\ m_reconn_attempts = 3 /\ m_reconn_delay = 1 /\ m_reconn_delay_max = 4
    /\ n_connects = 1 /\ n_closes = 0
    /\ m_ping_interval # 0                      \* a handshake was processed
    /\ reconnect_log = <<<<0, 1>>, <<1, 2>>, <<2, 4>>>>
    /\ m_reconn_made = 3
    /\ m_con_state = con_closed /\ transport = "none" /\ net_pc = "idle"

(* C7: when an established connection is closed by the transport and the   *)
(* reconnect attempts are exhausted (N = 3, delays 1, 2, 4), the close     *)
(* listener has been invoked exactly once, with MaxReconnectAttempts, and  *)
(* no reconnect timer is pending.                                          *)
C7_ExhaustionReportedToCloseListener ==
    C7_Exhausted =>
        /\ close_log = <<"max_reconnect_attempts">>
        /\ m_reconn_timer # "pending" /\ timer_q.reconn = 0

(* C8: once a user thread's close() has returned, the engine is neither    *)
(* Connecting nor Connected until connect() is called again: no reconnect  *)
(* timer callback re-enters Connecting.                                    *)
C8_NoReconnectAfterClose ==
    user_closed => m_con_state \notin {con_opening, con_opened}

(* C9: after close() or sync_close() the transport ends up closed and the  *)
(* state becomes Disconnected: when the call has returned and the event    *)
(* loop has run out of work, the engine is not left in Closing.            *)
C9_CloseEndsDisconnected ==
    (user_closed /\ usr_pc = "idle" /\ ~loop_running)
        => (m_con_state = con_closed /\ transport = "none")

(* C10: the transport close that follows a ping timeout (the close         *)
(* requested by timeout_ping, with the PingTimeout reason latched) invokes *)
(* the close listener with PingTimeout.                                    *)
C10_PingTimeoutReported ==
    [][(/\ m_has_pending_reason /\ m_pending_disconnect_reason = "ping_timeout"
        /\ transport = "closing" /\ local_close_code = "policy_violation"
        /\ transport' = "none")
          => close_log' = Append(close_log, "ping_timeout")]_vars

\* a step in which the close of the transport is handled (on_close)
TransportClosed == transport \in {"open", "closing"} /\ transport' = "none"

\* the reason the specification assigns to a close with local close code `code`
ReasonOfCode(code) ==
    IF code \in {"normal", "going_away"} THEN "server_disconnect" ELSE "transport_error"

(* C11: every transport close of an established connection that is         *)
(* neither user-initiated nor caused by a ping timeout invokes the close   *)
(* listener, with ServerDisconnect for the local close codes normal and    *)
(* going-away and with TransportError for any other code, whether or not   *)
(* a reconnect is scheduled.                                               *)
C11_RuntimeCloseReported ==
    [][(/\ TransportClosed
        /\ m_sid # ""
        /\ m_con_state # con_closing /\ ~m_abort_retries
        /\ ~m_has_pending_reason)
          => /\ Len(close_log') = Len(close_log) + 1
             /\ close_log'[Len(close_log')] \in {"server_disconnect", "transport_error"}
             /\ transport = "closing"
                  => close_log'[Len(close_log')] = ReasonOfCode(local_close_code)]_vars

\* the transport closes while the user is closing or has aborted reconnection
UserClosing == m_con_state = con_closing \/ m_abort_retries

(* C12, as the specification states it: whenever the transport closes      *)
(* while the prior state was Closing or the user has aborted reconnection, *)
(* the close listener receives ClientDisconnect and no reconnect timer is  *)
(* scheduled.                                                              *)
C12_UserCloseIsClientDisconnect ==
    [][(TransportClosed /\ UserClosing)
          => /\ close_log' = Append(close_log, "client_disconnect")
             /\ m_reconn_timer' # "pending"
             /\ reconnect_log' = reconnect_log]_vars

(* C12, amended: whenever the transport closes while the prior state was   *)
(* Closing or the user has aborted reconnection, no reconnect timer is     *)
(* scheduled and the close listener is invoked once, with the latched      *)
(* reason (PingTimeout) if one is latched and with ClientDisconnect        *)
(* otherwise.                                                              *)
C12_UserCloseReported ==
    [][(TransportClosed /\ UserClosing)
          => /\ close_log' = Append(close_log,
                                    IF m_has_pending_reason
                                    THEN m_pending_disconnect_reason
                                    ELSE "client_disconnect")
             /\ m_reconn_timer' # "pending"
             /\ reconnect_log' = reconnect_log]_vars

\* the close of an open connection requested by the user has been handled
C12_UserCloseHandled ==
    /\ user_closed /\ m_abort_retries
    /\ m_con_state = con_closed /\ transport = "none"
    /\ close_log = <<"client_disconnect">>

\* a step in which the failure of a transport to open is handled (on_fail)
TransportFailed == transport = "opening" /\ transport' = "none"

(* C13: every transport open failure handled while the client is not       *)
(* closing invokes the fail listener once, and a reconnect is scheduled    *)
(* exactly when fewer than attempts_max attempts have been made and        *)
(* retries are not aborted.                                                *)
C13_OpenFailureReported ==
    [][(TransportFailed /\ m_con_state # con_closing)
          => /\ Len(fail_log') = Len(fail_log) + 1
             /\ (m_reconn_timer' = "pending" /\ Len(reconnect_log') = Len(reconnect_log) + 1)
                  <=> (m_reconn_made < m_reconn_attempts /\ ~m_abort_retries)]_vars

(* C14: the engine state is Connected only after an OPEN packet carrying   *)
(* a sid has been processed on the current transport: in every reachable   *)
(* state, Connected implies a non-empty session id.                        *)
C14_ConnectedHasSid == m_con_state = con_opened => m_sid # ""

\* an OPEN packet whose payload is not an object or has no sid is processed
FailedHandshake == on_handshake("no_sid") \/ on_handshake("not_object")

(* C15: when the OPEN payload is not an object or has no sid, the engine   *)
(* requests a transport close with code policy-violation, leaves the       *)
(* ping-timeout timer unarmed and the reconnect counter, ping interval and *)
(* ping timeout unchanged; a payload with a sid that lacks pingInterval or *)
(* pingTimeout gets the defaults 25000 and 60000 for what it lacks.        *)
C15_HandshakeFailureCloses ==
    [][/\ FailedHandshake =>
            /\ transport' = "closing"
            /\ local_close_code' = "policy_violation"
            /\ m_ping_timeout_timer' = m_ping_timeout_timer
            /\ m_reconn_made' = m_reconn_made
            /\ m_ping_interval' = m_ping_interval
            /\ m_ping_timeout' = m_ping_timeout
       /\ (on_handshake("sid_only") \/ on_handshake("sid_timeout")) =>
            m_ping_interval' = DefaultPingInterval
       /\ (on_handshake("sid_only") \/ on_handshake("sid_interval")) =>
            m_ping_timeout' = DefaultPingTimeout]_vars

\* the CONNECT packets written to the server so far
ConnectsSent == Cardinality({i \in DOMAIN wire : wire[i] = ConnectPkt})


(* C16: a namespace socket sends exactly one CONNECT per transport open,   *)
(* at construction when the client is Connected or on the open             *)
(* notification otherwise, whatever the interleaving of socket(nsp) with   *)
(* on_open: the CONNECT packets written never outnumber the transports.    *)
C16_OneConnectPerOpen == ConnectsSent <= TransportsUsed

(* C17: when the 20 s connect timer's handler runs before any CONNECT      *)
(* response, the namespace closes: connected stays false, the queue is     *)
(* discarded and the socket leaves the map; once the response has been     *)
(* processed the timer's expiry never closes the namespace.                *)
C17_ConnectTimeoutOnlyBeforeResponse ==
    [][timeout_connection =>
          IF m_connected
          THEN m_connected' /\ in_map' = in_map /\ sock_client' = sock_client
          ELSE (in_map /\ sock_client) =>
                   (~m_connected' /\ m_packet_queue' = <<>> /\ ~in_map')]_vars

\* the namespace has left the engine's map or its removal is under way: the
\* close-grace wait is pending or its handler is queued
RemovalUnderWay == ~in_map \/ m_connection_timer = "grace" \/ timer_q.grace > 0

(* C18: after socket close() on a namespace handle, connected or not yet   *)
(* connected, the namespace is removed from the engine's map by the        *)
(* server's DISCONNECT or by the 3 s grace timer, and emit on the handle   *)
(* then sends nothing and enqueues nothing: once close() was called the    *)
(* removal is done or under way and the queue takes no new packet.         *)
C18_CloseRemovesNamespace ==
    [][close_called' => /\ RemovalUnderWay'
                        /\ (close_called => Len(m_packet_queue') <= Len(m_packet_queue))]_vars

\* the ACK packets in a sequence of packets
AcksIn(ps) == Cardinality({i \in DOMAIN ps : ps[i].type = "ack"})

\* the ACK replies written to the server or queued for it
AcksOut == AcksIn(wire) + AcksIn(m_packet_queue) + AcksIn(chat.m_packet_queue)

(* C19: for an inbound EVENT an ACK reply is sent if and only if the       *)
(* packet carried an ack id and a listener populated a non-empty ack       *)
(* message; with no listener, or an ack message left empty, no ACK goes    *)
(* out.                                                                    *)
C19_AckOnlyWhenPopulated ==
    [][\A populate \in BOOLEAN :
          on_event_invoke(populate) =>
              (AcksOut' = AcksOut + 1 <=> (needAck(ev.id) /\ populate))
      ]_vars

(* C20: an inbound EVENT invokes only listeners bound on the socket whose  *)
(* namespace equals the packet's, the listener bound for the packet's      *)
(* event name exactly once; a packet whose namespace has no socket in the  *)
(* map invokes no listener and changes no socket's state.                  *)
C20_EventsRoutedByNamespace ==
    [][/\ \A nsp \in Namespaces, name \in EventNames, id \in InboundIds :
            on_event_packet(nsp, name, id) =>
                IF nsp \in m_sockets
                THEN ev' = [so |-> nsp, name |-> name, id |-> id,
                            func |-> m_event_binding[nsp][name]]
                ELSE UNCHANGED <<in_map, sock_client, m_connected, m_packet_queue,
                                 m_connection_timer, chat, m_event_binding, wire,
                                 ev, net_pc, event_calls>>
       /\ \A populate \in BOOLEAN :
            on_event_invoke(populate) =>
                event_calls' =
                    IF ev.func # NoListener
                    THEN Append(event_calls, [nsp |-> ev.so, name |-> ev.name, f |-> ev.func])
                    ELSE event_calls
       /\ Len(event_calls') > Len(event_calls) => \E populate \in BOOLEAN : on_event_invoke(populate)
      ]_vars

\* both namespaces have a socket with a listener for "a"; one event "a" of
\* "/chat" was delivered, to the listener of "/chat" alone
C20_ChatEventDelivered ==
    /\ m_sockets = Namespaces
    /\ m_event_binding["/"]["a"] = 1 /\ m_event_binding["/chat"]["a"] = 2
    /\ n_inbound = 1
    /\ event_calls = <<[nsp |-> "/chat", name |-> "a", f |-> 2]>>

(* C21: with on/off called on user threads while an inbound event is being *)
(* dispatched, the listener invoked for a name is the one that was bound   *)
(* under that name when the dispatch took its copy under the listener      *)
(* mutex: a listener removed before the copy is never invoked, and an off  *)
(* or on during the invocation neither blocks nor changes what is called.  *)
C21_SnapshotListenerInvoked ==
    [][/\ \A name \in EventNames, id \in InboundIds :
            (on_event_packet("/", name, id) /\ net_pc' = "ev_call") =>
                ev'.func = m_event_binding["/"][name]
       /\ \A populate \in BOOLEAN :
            on_event_invoke(populate) =>
                event_calls' =
                    IF ev.func # NoListener
                    THEN Append(event_calls, [nsp |-> ev.so, name |-> ev.name, f |-> ev.func])
                    ELSE event_calls
       /\ (net_pc = "ev_call" /\ m_event_binding' # m_event_binding) =>
            (ev' = ev /\ net_pc' = net_pc)
      ]_vars

\* a dispatch copied listener 1 for its event name, off removed the binding
\* while the call was still to come, and no call has been made yet
C21_OffDuringDispatch ==
    /\ net_pc = "ev_call" /\ ev.func = 1
    /\ m_event_binding[ev.so][ev.name] = NoListener
    /\ event_calls = <<>>

\* thread t is about to call a user callback
AtCallback(t) == lk_pc[t] # <<>> /\ Head(lk_pc[t]).op = "call"

(* C22: no user-supplied callback (event, catch-all or error listener, ack *)
(* or ack-timeout callback, the client's open, fail, close, state,         *)
(* reconnect or socket listeners) is invoked while the invoking thread     *)
(* holds the socket-map, client-listener, socket-event or packet-queue     *)
(* mutex.                                                                  *)
C22_NoCallbackUnderMutex ==
    \A t \in Threads : AtCallback(t) => \A m \in Mutexes : lk_owner[m] # t

\* the network thread is about to call the event listener while a user
\* thread holds the event mutex inside on()
C22_ListenerCalledDuringOn ==
    /\ AtCallback("net") /\ Head(lk_pc["net"]).arg = "event_listener"
    /\ lk_owner["m_event_mutex"] = "usr"

\* the namespace a name stands for: "" and "/" are the root namespace, "c"
\* and "/c" are the namespace c
NamespaceOf(nsp) ==
    IF nsp \in {<<>>, <<"/">>} THEN "root"
    ELSE IF nsp \in {<<"c">>, <<"/", "c">>} THEN "c"
    ELSE "d"

(* C23: for any sequence of socket(nsp) calls the engine's map holds at    *)
(* most one socket per normalized namespace ("" is "/", a name without a   *)
(* leading '/' gets one), and calls whose names normalize to the same      *)
(* namespace return the same socket as long as it has not been closed.     *)
C23_OneSocketPerNamespace ==
    /\ \A e1, e2 \in sock_map : NamespaceOf(e1.nsp) = NamespaceOf(e2.nsp) => e1 = e2
    /\ \A e \in sock_map : e.nsp # <<>> /\ Head(e.nsp) = "/"
    /\ \A n1, n2 \in RawNames :
           (NamespaceOf(n1) = NamespaceOf(n2) /\ sock_ret[n1] # 0 /\ sock_ret[n2] # 0)
               => sock_ret[n1] = sock_ret[n2]

\* socket("c") and socket("/c") returned the same socket, the second one
\* made for that namespace after the first was closed
C23_SameSocketForBothSpellings ==
    /\ sock_ret[<<"c">>] = 2 /\ sock_ret[<<"/", "c">>] = 2
    /\ sock_map = {[nsp |-> <<"/", "c">>, id |-> 2]}

(* C24: an inbound ACK whose id has no entry in the namespace's table of   *)
(* outstanding acks (never issued, already answered or already timed out)  *)
(* invokes no callback and leaves the ack table, the ack-timer table and   *)
(* the connection state unchanged.                                         *)
C24_StaleAckDropped ==
    [][\A i \in EmitIds :
          (on_socketio_ack(i) /\ i \notin m_acks) =>
              UNCHANGED <<ack_calls, timeout_calls, m_acks, m_ack_timers, ack_timer,
                          m_con_state, transport, m_connected, in_map, m_packet_queue>>
      ]_vars

\* the ACK for id 1 arrived when the timeout callback had taken the entry:
\* the ack callback was never called
C24_AckAfterTimeout ==
    /\ timeout_calls[1] = 1 /\ ack_recv[1] = 1 /\ ack_calls[1] = 0
    /\ 1 \notin m_acks

(* C25: the task returned by emit_async completes, with the ack list or    *)
(* with a timeout error, in every interleaving of the ack or timeout       *)
(* callback with the caller's suspension at co_await: once one of the two  *)
(* callbacks has run, a suspended coroutine has been resumed.              *)
C25_ResumedAfterCallback ==
    (awaiter.continuation /\ awaiter.result # "none") => awaiter.resumed

(* C26: any two emits with an ack callback, from any threads on any        *)
(* namespaces of any clients in the process, get different ack ids, and    *)
(* the ids are handed out in strictly increasing order of allocation.      *)
C26_IdsStrictlyIncreasing ==
    \A i, j \in 1..Len(id_log) : i < j => id_log[i].pack_id < id_log[j].pack_id

\* the binaries of a message, in the order a depth-first walk meets them
RECURSIVE BinariesOf(_)
BinariesOf(msg) ==
    IF msg.flag = "binary" THEN <<msg.bin>>
    ELSE IF msg.items = <<>> THEN <<>>
    ELSE BinariesOf(Head(msg.items)) \o BinariesOf(Arr(Tail(msg.items)))

\* the nums of the placeholders of a JSON text, in the order of the text
RECURSIVE PlaceholdersOf(_)
PlaceholdersOf(json) ==
    IF json.flag = "placeholder" THEN <<json.num>>
    ELSE IF json.items = <<>> THEN <<>>
    ELSE PlaceholdersOf(Head(json.items)) \o PlaceholdersOf(Arr(Tail(json.items)))

\* the message with every binary and placeholder replaced by one mark
RECURSIVE ShapeOf(_)
ShapeOf(msg) ==
    IF msg.flag \in {"binary", "placeholder"} THEN Str("attachment")
    ELSE [msg EXCEPT !.items = [i \in 1..Len(msg.items) |-> ShapeOf(msg.items[i])]]

(* C28: for a packet of type EVENT or ACK whose payload holds k binaries,  *)
(* encode emits one text frame followed by k binary frames in traversal    *)
(* order; the text frame has the sub-type BINARY_EVENT or BINARY_ACK and   *)
(* the prefix 'k-' if and only if k >= 1, and the i-th binary (from 0) is  *)
(* replaced by a placeholder with num = i.                                 *)
C28_TextThenBinariesInOrder ==
    \A e \in {enc_out[i] : i \in 1..Len(enc_out)} :
        LET bins == BinariesOf(e.pack.message)
            k == Len(bins)
            text == e.frames[1].payload
        IN  /\ Len(e.frames) = 1 + k
            /\ ~e.frames[1].isBinary /\ text.text
            /\ \A i \in 1..k : /\ e.frames[1 + i].isBinary
                               /\ e.frames[1 + i].payload = ByteFrame(bins[i])
            /\ (k >= 1) <=> text.type \in {"binary_event", "binary_ack"}
            /\ text.type \in (IF e.pack.type = "event" THEN {"event", "binary_event"}
                              ELSE {"ack", "binary_ack"})
            /\ text.att = (IF k >= 1 THEN k ELSE NoAtt)
            /\ PlaceholdersOf(text.json) = [i \in 1..k |-> i - 1]
            /\ ShapeOf(text.json) = ShapeOf(e.pack.message)

\* an event whose second binary lies inside a nested array was encoded
C28_NestedBinaryEncoded ==
    /\ enc_out # <<>>
    /\ enc_out[1].pack.message =
          Arr(<<Str("str"), Bin(<<4, 1>>), Arr(<<Bin(<<0, 1>>)>>)>>)
    /\ Len(enc_out[1].frames) = 3

\* the JSON of a text frame with placeholder i replaced by the bytes of the
\* i-th of the binary frames that follow it
RECURSIVE WithAttachments(_, _)
WithAttachments(json, frames) ==
    IF json.flag = "placeholder" THEN Bin(frames[json.num + 1].bytes)
    ELSE [json EXCEPT !.items = [i \in 1..Len(json.items) |-> WithAttachments(json.items[i], frames)]]

\* a BINARY_EVENT text declaring k > 0 attachments with placeholders 0..k-1
DeclaresAttachments(t) ==
    /\ t.text /\ t.frame = "message" /\ t.type = "binary_event" /\ t.att > 0
    /\ \A n \in {PlaceholdersOf(t.json)[i] : i \in 1..Len(PlaceholdersOf(t.json))} :
          n \in 0..(t.att - 1)

(* C27: a BINARY_EVENT text frame that declares k attachments, followed by *)
(* k binary frames of arbitrary bytes, delivers one packet in which each   *)
(* placeholder with num = i is replaced by a binary message whose bytes    *)
(* equal the i-th binary frame; so the frames produced by encode decode to *)
(* the original message.                                                   *)
C27_AttachmentsRestored ==
    /\ (/\ fed # <<>> /\ DeclaresAttachments(fed[1])
        /\ Len(fed) = 1 + fed[1].att
        /\ \A i \in 2..Len(fed) : ~fed[i].text)
       => /\ Len(decoded) = 1
          /\ decoded[1].message = WithAttachments(fed[1].json, Tail(fed))
    /\ \A pack \in EncPackets :
          LET frames == encode(pack)
          IN  (Len(frames) > 1 /\ fed = [i \in 1..Len(frames) |-> frames[i].payload])
              => (Len(decoded) = 1 /\ decoded[1].message = pack.message)

\* the last frame fed was a binary frame and completed the partial packet
CompletesPartial(payload) ==
    /\ ~payload.text
    /\ m_partial_packet # <<>> /\ m_partial_packet[1].pending_buffers = 1

(* C29: for a text frame declaring k > 0 attachments the decode callback   *)
(* is invoked exactly once for that packet, after the k-th following       *)
(* binary frame and never earlier; a text frame declaring no attachments   *)
(* is delivered immediately.                                               *)
C29_DeliveredWhenComplete ==
    [][\A payload \in Payloads : put_payload(payload) =>
        /\ CompletesPartial(payload) =>
              /\ Len(decoded') = Len(decoded) + 1
              /\ decoded'[Len(decoded')].json_text = NoJson
              /\ decoded'[Len(decoded')].type = m_partial_packet[1].type
              /\ m_partial_packet' = <<>>
        /\ (Len(decoded') > Len(decoded) /\ decoded'[Len(decoded')].type \in BinaryTypes)
              => CompletesPartial(payload)
        /\ (payload.text /\ payload.frame = "message" /\ payload.att \in {NoAtt, 0})
              => /\ Len(decoded') = Len(decoded) + 1
                 /\ decoded'[Len(decoded')].type = payload.type
    ]_vars

(* C30: an inbound MESSAGE frame with a malformed header or with a JSON    *)
(* that fails to parse is delivered as a packet with a null message and is *)
(* a no-op: no exception or crash leaves the engine, no listener or ack    *)
(* callback is called, connection and namespace state are unchanged.       *)
C30_MalformedIsNoOp ==
    [][\A payload \in MalformedTexts : on_message(payload) =>
        /\ Len(decoded') = Len(decoded) + 1
        /\ decoded'[Len(decoded')].message = NullMsg
        /\ net_pc' = "idle"
        /\ UNCHANGED <<m_con_state, transport, m_connected, in_map,
                       event_calls, ack_calls, timeout_calls>>
    ]_vars

\* the transport in use was opened after an earlier one had dropped
Reopened == dropped /\ transport = "open"

(* C31: after a transport drop and a successful re-open, every namespace   *)
(* socket still in the map sends CONNECT again and is connected again once *)
(* the response is processed; the packets emitted while it was             *)
(* disconnected are then sent, in FIFO order: once it is connected and no  *)
(* handler or emit is in progress nothing is left queued and the events    *)
(* written are in the order of their emits.                                *)
C31_ReconnectRestoresNamespace ==
    [][/\ (on_open_sockets /\ Reopened /\ in_map) => wire' = Append(wire, ConnectPkt)
       /\ \A s \in BOOLEAN :
             (on_connect_response(s) /\ Reopened /\ in_map /\ sock_client) => m_connected'
       /\ (on_connected_flush /\ Reopened) => wire' = wire \o m_packet_queue
       /\ (Reopened /\ in_map /\ sock_client /\ m_connected /\ net_pc = "idle" /\ em_pc = "idle")'
             => (m_packet_queue' = <<>> /\ InOrder(EventsOf(wire')))
      ]_vars

(* C32: a timer handler that runs because its timer was cancelled or       *)
(* re-armed changes no state and invokes no callback; stated for the       *)
(* close-grace timer of a namespace, whose handler is the one that can run *)
(* after a cancel with the socket still alive.                             *)
C32_CancelledHandlerIsNoOp ==
    [][grace_handler_run(TRUE) =>
          UNCHANGED <<m_connected, m_packet_queue, sock_client, in_map,
                      m_connection_timer>>]_vars

\* a closure or failure of the transport that no user close is waiting for
TransportLost == (on_fail \/ \E c \in CloseCodes : on_close(c)) /\ m_con_state # con_closing

(* C33: within one run (since the last connect() or handshake) the number  *)
(* of reconnect timers scheduled never exceeds the configured attempts;    *)
(* with zero attempts no reconnect timer is ever scheduled, and after the  *)
(* transport closed or failed to open the state is Disconnected and stays  *)
(* so until the user connects again.                                       *)
C33_ReconnectTimersBounded ==
    [][/\ run_timers' <= m_reconn_attempts'
       /\ m_reconn_attempts = 0 =>
            /\ m_reconn_timer' # "pending" /\ timer_q'.reconn = 0
            /\ TransportLost => m_con_state' = con_closed
            /\ (m_con_state = con_closed /\ m_con_state' # con_closed)
                  => (connect \/ connect_join \/ close_store \/ sync_close_store)
      ]_vars

\* the last permitted reconnect timer of a run has been scheduled
C33_LastTimerScheduled == m_reconn_attempts = 3 /\ run_timers = 3

\* a transport was lost with no attempts configured
NoAttemptsLost ==
    m_reconn_attempts = 0 /\ m_con_state = con_closed /\ (fail_log # <<>> \/ close_log # <<>>)

\* the state listener is called in this step
Notified == state_notified'.flip # state_notified.flip

(* C34: every value handed to the state listener equals what               *)
(* get_connection_state() returns at that moment, and every change of the  *)
(* value of get_connection_state() comes with a call of the listener.      *)
C34_ListenerMatchesState ==
    [][/\ Notified => state_notified'.value = get_connection_state(m_con_state')
       /\ get_connection_state(m_con_state') # get_connection_state(m_con_state) => Notified
      ]_vars

\* the packets written to the transport
Written == {wire[i] : i \in 1..Len(wire)}

(* C35: every close() of a connected namespace, called on the handle or    *)
(* through the client's close() or sync_close(), has a DISCONNECT packet   *)
(* for the namespace written to the transport before the client closes    *)
(* the transport.                                                          *)
C35_DisconnectBeforeTransportClose ==
    (ns_close_sent /\ transport = "closing") => DisconnectPkt \in Written

\* the ack list an on_with_ack handler leaves behind: what the list form
\* fills in, one boolean for the bool form
AckListOf(h) ==
    IF h.form = "list" THEN h.out
    ELSE <<IF h.result = "true" THEN "true" ELSE "false">>

\* the ACK replies written or queued, in order
AckReplies == SelectSeq(wire \o m_packet_queue, LAMBDA p : p.type = "ack")

(* C36: a handler bound by on_with_ack is invoked for every matching       *)
(* event; its ack list is the payload of the ACK reply when the inbound    *)
(* packet carried an ack id and the list is non-empty, and it is sent      *)
(* nowhere when the packet carried no ack id; the bool form yields exactly *)
(* one boolean, false when the handler throws.                             *)
C36_WithAckPayload ==
    [][\A populate \in BOOLEAN :
          (on_event_invoke(populate) /\ ev.func \in WithAckIds) =>
              LET list == AckListOf(WithAckHandlers[ev.func])
              IN  /\ event_calls' = Append(event_calls,
                                           [nsp |-> ev.so, name |-> ev.name, f |-> ev.func])
                  /\ IF needAck(ev.id) /\ sock_client
                     THEN AckReplies' = Append(AckReplies, AckPkt(ev.so, ev.id, list))
                     ELSE AckReplies' = AckReplies
      ]_vars

\* a bool-form handler that threw has been answered with the one boolean false
C36_ThrowAnswered ==
    /\ \E i \in DOMAIN event_calls : event_calls[i].f = 23
    /\ \E i \in DOMAIN wire : wire[i].type = "ack" /\ wire[i].msg = <<"false">>

(* C37: packets_sent as get_metrics returns it equals the number of        *)
(* packets the socket handed to the engine, those flushed from the         *)
(* pre-connect queue on the CONNECT response included, and                 *)
(* packets_received equals the number of inbound packets routed to the     *)
(* namespace.                                                              *)
C37_MetricsCountPackets ==
    /\ metrics.packets_sent = traffic.handed
    /\ metrics.packets_received = traffic.routed

\* the close listener is handed PingTimeout in this step
PingTimeoutDelivered ==
    Len(close_log') = Len(close_log) + 1 /\ close_log'[Len(close_log')] = "ping_timeout"

(* C38: the PingTimeout reason is delivered only for the close of the      *)
(* connection on which the ping timer expired, and the latched reason is   *)
(* never still set when a later connection is under way.                   *)
C38_PingTimeoutOnItsConnection ==
    [][/\ PingTimeoutDelivered => ping_expired_on = TransportsUsed
       /\ (m_has_pending_reason /\ transport # "none")' => (ping_expired_on = TransportsUsed)'
      ]_vars

\* a close_impl posted by close() or sync_close() has not run yet
CloseUnprocessed ==
    \/ usr_pc \in {"close_b", "sync_b"}
    \/ \E i \in DOMAIN io_queue : io_queue[i].op = "close_impl"

C40_SocketListenersOnce ==
    [][/\ socket_listener_calls'.open =
              socket_listener_calls.open + (IF ~m_connected /\ m_connected' THEN 1 ELSE 0)
       /\ \A s \in BOOLEAN :
              (on_connect_response(s) /\ m_connected) => (wire' = wire /\ net_pc' = "idle")
       /\ socket_listener_calls'.close <= 1
      ]_vars

====
